---- MODULE Spec2Model ----
(***************************************************************************)
(* pydantic/_internal/_generate_schema.py as a state machine.              *)
(*                                                                         *)
(* GenerateSchema is a recursive-descent compiler from type descriptors    *)
(* to core schemas.  The recursion is modelled with an explicit call       *)
(* stack per GenerateSchema instance: one frame per active call of         *)
(* generate_schema, _generate_schema_from_property,                        *)
(* _generate_schema_inner, _model_schema, _dataclass_schema,               *)
(* _common_field_schema, _apply_annotations and _union_schema, and one     *)
(* action per straight-line piece of each of them.  An exception is a      *)
(* value of exc that unwinds the stack frame by frame, running exactly     *)
(* the cleanups the source runs (the finally of get_schema_or_ref; the     *)
(* two context stacks have none).                                          *)
(*                                                                         *)
(* The module-level SCHEMA_CACHE is one variable shared by all instances;  *)
(* everything else is per instance.                                        *)
(***************************************************************************)
EXTENDS Naturals, Sequences, FiniteSets, TLC

VARIABLES
    decl,              \* the declared record types: name -> kind, config, fields
    ns,                \* the active types namespace: the names a forward reference resolves
    SCHEMA_CACHE,      \* module-level field-schema cache: key -> schema
    config,            \* per instance: the config_wrapper given to __init__
    process,           \* how many times the program has been started
    seen,              \* per instance: defs.seen
    definitions,       \* per instance: defs.definitions, ref -> schema
    model_type_stack,  \* per instance: model_type_stack._stack
    field_name_stack,  \* per instance: field_name_stack._stack
    stack,             \* per instance: the call stack (innermost frame last)
    ret,               \* per instance: the value the last finished call returned
    exc,               \* per instance: the exception being propagated, or "none"
    req,               \* per instance: the type of the running top-level request
    log,               \* per instance: the outcomes of the finished top-level requests
    expanded           \* per instance: refs whose field list was expanded in this request

vars == <<decl, ns, SCHEMA_CACHE, config, process, seen, definitions, model_type_stack,
          field_name_stack, stack, ret, exc, req, log, expanded>>

\* what no step of a compilation changes
env == <<decl, ns, config, process>>

----------------------------------------------------------------------------
\* Bounds of the model.

MaxFields == 2
MaxRequests == 2
MaxProcesses == 2
MaxSharedFields == 1
MaxMemberFields == 1
NumInst == 2

Insts == 1..NumInst

----------------------------------------------------------------------------
\* Type descriptors.  opt = TRUE is Optional[...] of the same descriptor.

\* meta is the metadata list of Annotated[..., *meta]; <<>> is a type that is not Annotated.
Type(k, n, arg) == [k |-> k, n |-> n, arg |-> arg, opt |-> FALSE, meta |-> <<>>]
NoType == Type("none", "", "")
IntT == Type("prim", "int", "")
StrT == Type("prim", "str", "")
ModelT(n) == Type("model", n, "")
BoxT(arg) == Type("dataclass", "Box", arg)
TypeVarT == Type("typevar", "T", "")
ForwardT(n) == Type("forward", n, "")
TypedDictT(n) == Type("typeddict", n, "")
DataclassT(n) == Type("dataclass", n, "")
PydanticRecursiveRef(n) == Type("recursive", n, "")
ListT(item) == Type("list", "list", item)
DictT(value) == Type("dict", "dict", value)
AnnotatedT(t, meta) == [t EXCEPT !.meta = meta]
\* Union[a, b] of two model classes
UnionT(a, b) == Type("union", a, b)
\* Tuple[item, ...] and the one-item tuple Tuple[item]
TupleT(item, variadic) == Type("tuple", IF variadic THEN "variadic" ELSE "fixed", item)
\* typing.Self
SelfT == Type("self", "Self", "")
\* a NamedTuple class, a TypeAliasType, and a class that pydantic knows nothing about
NamedTupleT(n) == Type("namedtuple", n, "")
TypeAliasT(n) == Type("alias", n, "")
ClassT(n) == Type("class", n, "")
\* a class with a __get_pydantic_core_schema__ of its own that delegates for the class
\* itself, by handler(source) (how = "call") or by handler.generate_schema(source)
HookedT(n, how) == Type("hooked", n, how)
Optional(t) == [t EXCEPT !.opt = TRUE]
NonOptional(t) == [t EXCEPT !.opt = FALSE]

\* _generics.replace_types with the typevars map {T: arg} ("" is no map)
replace_types(tp, arg) ==
    IF arg = "" THEN tp
    ELSE IF tp.k = "typevar" THEN [Type("prim", arg, "") EXCEPT !.opt = tp.opt]
    ELSE IF tp.k = "dataclass" /\ tp.arg = "T" THEN [tp EXCEPT !.arg = arg]
    ELSE tp

\* _core_utils.get_type_ref: the origin's identity and the argument tuple
get_type_ref(tp) ==
    <<IF tp.meta # <<>> THEN "Annotated"
      ELSE IF tp.opt THEN "Optional"
      ELSE IF tp.k = "recursive" THEN "PydanticRecursiveRef"
      ELSE IF tp.k = "union" THEN "Union" ELSE "",
      tp.n, tp.arg>>
NoRef == <<"", "", "">>

----------------------------------------------------------------------------
\* Core schemas (pydantic_core.core_schema constructors).

None == [type |-> "none"]
int_schema == [type |-> "int"]
str_schema == [type |-> "str"]
definition_reference_schema(ref) == [type |-> "definition-ref", schema_ref |-> ref]
nullable_schema(s) == [type |-> "nullable", schema |-> s]
after_validator_function(f, s) == [type |-> "function-after", function |-> f, schema |-> s]
before_validator_function(f, s) == [type |-> "function-before", function |-> f, schema |-> s]
wrap_validator_function(f, s) == [type |-> "function-wrap", function |-> f, schema |-> s]
with_default_schema(s) == [type |-> "default", schema |-> s]
list_schema(items) == [type |-> "list", items_schema |-> items]
dict_schema(keys, values) == [type |-> "dict", keys_schema |-> keys, values_schema |-> values]
\* node names the schema object the field holds (see _common_field)
model_field(name, s, node) ==
    [name |-> name, schema |-> s, node |-> node, validation_alias |-> "",
     serialization_alias |-> ""]
\* _generate_md_field_schema, _generate_td_field_schema, _generate_dc_field_schema
\* (lines 1059-1106, 1158-1177): the field node of a common field
field_of_common_field(name, common_field) ==
    [model_field(name, common_field.schema, common_field.node)
       EXCEPT !.validation_alias = common_field.validation_alias,
              !.serialization_alias = common_field.serialization_alias]
model_schema(cls, fields, cfg, ref) ==
    [type |-> "model", cls |-> cls, fields |-> fields, config |-> cfg, ref |-> ref]
dataclass_schema(cls, fields, cfg, ref) ==
    [type |-> "dataclass", cls |-> cls, fields |-> fields, config |-> cfg, ref |-> ref]

typed_dict_schema(cls, fields, cfg, ref) ==
    [type |-> "typed-dict", cls |-> cls, fields |-> fields, config |-> cfg, ref |-> ref]
union_schema(choices) == [type |-> "union", choices |-> choices]
\* variadic_item_index is the position in items_schema of the variadic item, 0 for None
tuple_schema(items, variadic_item_index) ==
    [type |-> "tuple", items_schema |-> items, variadic_item_index |-> variadic_item_index]
arguments_parameter(name, s) == [name |-> name, schema |-> s]
call_schema(arguments, function, ref) ==
    [type |-> "call", arguments_schema |-> arguments, function |-> function, ref |-> ref]
is_instance_schema(cls) == [type |-> "is-instance", cls |-> cls]
any_schema == [type |-> "any"]
tagged_union_schema(choices, discriminator) ==
    [type |-> "tagged-union", choices |-> choices, discriminator |-> discriminator]
definitions_schema(schema, defs) == [type |-> "definitions", schema |-> schema, definitions |-> defs]
Put(f, k, v) == [x \in (DOMAIN f) \cup {k} |-> IF x = k THEN v ELSE f[x]]

\* a choice that takes the serializer declared first
used_serializer_first(serializers) == serializers[1]

\* lines 2177-2178 and 2219: the last serializer is the one used
used_serializer(serializers) == serializers[Len(serializers)]

\* lines 2213-2251: the ref is taken out and put back, the serialization is set
_apply_model_serializers(schema, serializers) ==
    IF serializers = <<>> THEN schema
    ELSE Put(schema, "serialization", used_serializer(serializers))

----------------------------------------------------------------------------
\* Configurations and declarations.

\* alias_generator: the functions an AliasGenerator has, <<>> for no generator; a plain
\* callable is a generator that has the alias function only
NoGenerator == <<>>
AliasGenerator(alias, validation_alias, serialization_alias) ==
    << [alias |-> alias, validation_alias |-> validation_alias,
        serialization_alias |-> serialization_alias] >>
\* json_encoders: the encoder function of each class of the table, <<>> for no table
NoEncoders == <<>>
Config(enum) == [set |-> TRUE, use_enum_values |-> enum, arbitrary_types_allowed |-> FALSE,
                 alias_generator |-> NoGenerator, json_encoders |-> NoEncoders]
NoConfig == [set |-> FALSE, use_enum_values |-> FALSE, arbitrary_types_allowed |-> FALSE,
             alias_generator |-> NoGenerator, json_encoders |-> NoEncoders]
WithJsonEncoders(cfg, encoders) == [cfg EXCEPT !.json_encoders = encoders]
\* ConfigDict(arbitrary_types_allowed=allowed) and ConfigDict(alias_generator=g)
ArbitraryTypes(cfg, allowed) == [cfg EXCEPT !.arbitrary_types_allowed = allowed]
WithAliasGenerator(cfg, g) == [cfg EXCEPT !.alias_generator = g]

\* A metadata item: an After/Before/WrapValidator (kind "validator"), a constraint that
\* apply_known_metadata knows (kind "known"), or a FieldInfo with a default (kind "default").
Item(kind, mode, func) == [kind |-> kind, mode |-> mode, func |-> func]
Validator(mode, func) == Item("validator", mode, func)
Known(name) == Item("known", "", name)
\* PlainSerializer(func) in the metadata, an item no capability is known of, and None
PlainSerializer(func) == Item("serializer", "", func)
Unknown(name) == Item("unknown", "", name)
NoneItem == Item("none", "", "")
DefaultItem == Item("default", "", "")

\* A @field_validator of a class: its function, its mode and the field names it names.
Decorator(func, mode, fields) ==
    [func |-> func, mode |-> mode, fields |-> fields, check_fields |-> TRUE]
\* the decorator declared with check_fields=False
Unchecked(dec) == [dec EXCEPT !.check_fields = FALSE]

\* A field of a class.  validated: the class has an after @field_validator naming this
\* field; v1: the V1 @validator naming it, "" for none, "each_item" for one with
\* each_item=True, "field" for one without; serializer: the functions of the class's
\* @field_serializers naming it, in declaration order; default: the field has a default;
\* discriminator: the name of the tag field of a discriminated union, "" for None.
\* alias, validation_alias, serialization_alias: "" is None; alias_priority: 0 is None.
FieldInfoWith(name, tp, validated, metadata, default, v1, serializer) ==
    [name |-> name, annotation |-> tp, validated |-> validated, metadata |-> metadata,
     default |-> default, v1 |-> v1, serializer |-> serializer, discriminator |-> "",
     alias |-> "", validation_alias |-> "", serialization_alias |-> "", alias_priority |-> 0]
\* the FieldInfo that Field(alias=..., validation_alias=..., serialization_alias=...,
\* alias_priority=...) leaves
WithAliases(f, alias, validation_alias, serialization_alias, alias_priority) ==
    [f EXCEPT !.alias = alias, !.validation_alias = validation_alias,
              !.serialization_alias = serialization_alias, !.alias_priority = alias_priority]
FieldInfo(name, tp, validated) == FieldInfoWith(name, tp, validated, <<>>, FALSE, "", <<>>)
NoField == FieldInfo("", NoType, FALSE)
\* Field(discriminator=d)
Discriminated(field, d) == [field EXCEPT !.discriminator = d]
FieldNames == <<"f1", "f2", "f3">>

\* every field list of at most MaxFields fields of the types tps, named f1, f2, ...
FieldListsUpTo(m, tps, vals) ==
    UNION { { [j \in 1..n |-> FieldInfo(FieldNames[j], ts[j], vs[j])] :
                ts \in [1..n -> tps], vs \in [1..n -> vals] } : n \in 0..m }
FieldLists(tps, vals) == FieldListsUpTo(MaxFields, tps, vals)

----------------------------------------------------------------------------
\* Call frames.

Frame(fn, obj) ==
    [fn |-> fn, pc |-> "start", obj |-> obj, source |-> obj, ref |-> NoRef,
     owned |-> FALSE, pushed |-> FALSE, cfg |-> NoConfig, tv |-> "",
     idx |-> 1, acc |-> <<>>, field |-> NoField, annots |-> <<>>, node |-> <<>>,
     discriminator |-> "", runs |-> 0, inner_handler |-> FALSE,
     seen0 |-> {}, defs0 |-> {}, mts0 |-> <<>>, fns0 |-> <<>>]

Top(i) == stack[i][Len(stack[i])]
Running(i) == stack[i] # <<>>
At(i, fn, pc) == Running(i) /\ exc[i] = "none" /\ Top(i).fn = fn /\ Top(i).pc = pc

\* ConfigWrapperStack.tail: the config pushed by the innermost enclosing builder
ConfigOf(stk, base) ==
    LET js == {j \in 1..Len(stk) : stk[j].cfg # NoConfig}
    IN IF js = {} THEN base
       ELSE stk[CHOOSE j \in js : \A k \in js : k <= j].cfg
_config_wrapper(i) == ConfigOf(stack[i], config[i])

\* a dispatcher that asks the configuration the instance was constructed with
_arbitrary_types_of_instance(i) == config[i].arbitrary_types_allowed

\* lines 366-368
_arbitrary_types(i) == _config_wrapper(i).arbitrary_types_allowed

\* a frame for a call made now: it remembers what the caller's state was
NewFrame(i, fn, obj) ==
    [Frame(fn, obj) EXCEPT !.seen0 = seen[i], !.defs0 = DOMAIN definitions[i],
                           !.mts0 = model_type_stack[i],
                           !.fns0 = field_name_stack[i]]

\* the running frame becomes `caller` and calls `callee`
Call(i, caller, callee) ==
    stack' = [stack EXCEPT ![i] = Append([@ EXCEPT ![Len(@)] = caller], callee)]
\* the running call returns v to its caller
Return(i, v) ==
    /\ stack' = [stack EXCEPT ![i] = SubSeq(@, 1, Len(@) - 1)]
    /\ ret' = [ret EXCEPT ![i] = v]
\* the running call raises e
Raise(i, e) == exc' = [exc EXCEPT ![i] = e]

----------------------------------------------------------------------------
\* _Definitions.get_schema_or_ref

\* variants of the scope that differ from the code in one respect each
get_schema_or_ref_found_seen_only(i, ref) == ref \in seen[i]
get_schema_or_ref_found_defined_only(i, ref) == ref \in DOMAIN definitions[i]
get_schema_or_ref_enter_unmarked(s, ref) == s
get_schema_or_ref_exit_no_finally(s, ref, raised) == IF raised THEN s ELSE s \ {ref}
get_schema_or_ref_found_exit_discard(s, ref) == s \ {ref}

\* a scope that never finds a ref
get_schema_or_ref_found_never(i, ref) == FALSE

\* line 2480: in a cycle, or already defined
get_schema_or_ref_found(i, ref) == ref \in seen[i] \/ ref \in DOMAIN definitions[i]
\* lines 2480-2481: the branch that yields the reference has no cleanup
get_schema_or_ref_found_exit(s, ref) == s
\* line 2483
get_schema_or_ref_enter(s, ref) == s \cup {ref}
\* lines 2486-2487: the finally clause, run when the scope is left by a return
\* (raised = FALSE) and when it is left by an exception (raised = TRUE)
get_schema_or_ref_exit(s, ref, raised) == s \ {ref}


----------------------------------------------------------------------------
\* GenerateSchema.generate_schema (also inner_handler of _apply_annotations,
\* lines 2052-2063, which is the same code for obj = source_type)

SetTop(i, f) == stack' = [stack EXCEPT ![i][Len(stack[i])] = f]

\* lines 610-611
generate_schema_start(i) ==
    /\ At(i, "generate_schema", "start")
    /\ Call(i, [Top(i) EXCEPT !.pc = "from_property"],
            Frame("_generate_schema_from_property", Top(i).obj))
    /\ UNCHANGED <<env, SCHEMA_CACHE, seen, definitions, model_type_stack,
                   field_name_stack, ret, exc, req, log, expanded>>

\* lines 615-616
generate_schema_inner(i) ==
    /\ At(i, "generate_schema", "from_property")
    /\ ret[i] = None
    /\ Call(i, [Top(i) EXCEPT !.pc = "inner"], Frame("_generate_schema_inner", Top(i).obj))
    /\ UNCHANGED <<env, SCHEMA_CACHE, seen, definitions, model_type_stack,
                   field_name_stack, ret, exc, req, log, expanded>>

\* the type is a class; any other is an alias object (Optional[...], List[...], a
\* specialized generic, Annotated[...])
is_class(tp) ==
    /\ ~tp.opt /\ tp.meta = <<>>
    /\ tp.k \in {"prim", "model", "class", "hooked", "namedtuple", "typeddict", "dataclass"}
    /\ tp.k = "dataclass" => tp.arg = ""

\* cls.__mro__: the class, its bases, object
__mro__(cls) ==
    CASE cls = "C" -> << "C", "Base", "object" >>
      [] cls = "object" -> << "object" >>
      [] OTHER -> << cls, "object" >>

\* line 294: getattr(tp, '__mro__', tp.__class__.__mro__); an alias object is not in a
\* table of classes and its class is GenericAlias
mro_of(tp) == IF is_class(tp) THEN __mro__(tp.n) ELSE << "GenericAlias", "object" >>

\* the classes looked up when the whole MRO is walked, object included
encoder_bases_whole_mro(tp) == << IF is_class(tp) THEN tp.n ELSE "" >> \o mro_of(tp)

\* line 294: (tp, *mro[:-1])
encoder_bases(tp) ==
    << IF is_class(tp) THEN tp.n ELSE "" >> \o SubSeq(mro_of(tp), 1, Len(mro_of(tp)) - 1)

\* core_schema.plain_serializer_function_ser_schema(encoder, when_used='json')
json_encoder_serialization(encoder) == encoder

\* lines 277-308
_add_custom_serialization_from_json_encoders(json_encoders, tp, schema) ==
    IF json_encoders = NoEncoders THEN schema
    ELSE IF "serialization" \in DOMAIN schema THEN schema
    ELSE LET bases == encoder_bases(tp)
             found == {j \in 1..Len(bases) : bases[j] \in DOMAIN json_encoders} IN
         IF found = {} THEN schema
         ELSE LET first == CHOOSE j \in found : \A k \in found : j <= k
              IN Put(schema, "serialization",
                     json_encoder_serialization(json_encoders[bases[first]]))

\* lines 612-613 and 618-626 (no __get_pydantic_json_schema__); inner_handler, lines
\* 2052-2063, ends without the json_encoders
generate_schema_return(i) ==
    /\ \/ At(i, "generate_schema", "from_property") /\ ret[i] # None
       \/ At(i, "generate_schema", "inner")
    /\ Return(i, IF Top(i).inner_handler THEN ret[i]
                 ELSE _add_custom_serialization_from_json_encoders(
                          _config_wrapper(i).json_encoders, Top(i).obj, ret[i]))
    /\ UNCHANGED <<env, SCHEMA_CACHE, seen, definitions, model_type_stack,
                   field_name_stack, exc, req, log, expanded>>

----------------------------------------------------------------------------
\* GenerateSchema._generate_schema_from_property

get_ref(s) == IF "ref" \in DOMAIN s THEN s.ref ELSE NoRef

\* the PydanticUserError of line 741
InvalidSelfReference == "PydanticUserError: invalid-self-type"

\* _ModelTypeStack.get, lines 2530-2534: NoType is None
_ModelTypeStack_get(s) == IF s # <<>> THEN s[Len(s)] ELSE NoType

\* _resolve_self_type, lines 738-742: NoType stands for the raise of line 741
_resolve_self_type(s) == _ModelTypeStack_get(s)

\* lines 752-756: typing.Self is resolved, then the scope is entered
from_property_enter(i) ==
    /\ At(i, "_generate_schema_from_property", "start")
    /\ LET obj == IF Top(i).obj.k = "self" /\ ~Top(i).obj.opt
                  THEN _resolve_self_type(model_type_stack[i])
                  ELSE Top(i).obj
           ref == get_type_ref(obj) IN
       IF obj = NoType
       THEN /\ Raise(i, InvalidSelfReference)
            /\ UNCHANGED <<stack, ret, seen>>
       ELSE /\ IF get_schema_or_ref_found(i, ref)
               THEN /\ Return(i, definition_reference_schema(ref))
                    /\ seen' = [seen EXCEPT ![i] = get_schema_or_ref_found_exit(@, ref)]
               ELSE /\ seen' = [seen EXCEPT ![i] = get_schema_or_ref_enter(@, ref)]
                    /\ SetTop(i, [Top(i) EXCEPT !.pc = "scope", !.obj = obj, !.ref = ref,
                                                !.owned = TRUE])
                    /\ UNCHANGED ret
            /\ UNCHANGED exc
    /\ UNCHANGED <<env, SCHEMA_CACHE, definitions, model_type_stack,
                   field_name_stack, req, log, expanded>>

\* line 756: the with block ends before any hook is looked up
from_property_exit(i) ==
    /\ At(i, "_generate_schema_from_property", "scope")
    /\ seen' = [seen EXCEPT ![i] = get_schema_or_ref_exit(@, Top(i).ref, FALSE)]
    /\ SetTop(i, [Top(i) EXCEPT !.pc = "hook", !.owned = FALSE])
    /\ UNCHANGED <<env, SCHEMA_CACHE, definitions, model_type_stack,
                   field_name_stack, ret, exc, req, log, expanded>>

\* _unpack_refs_defs, lines 731-734: the definitions a 'definitions' schema carries
\* are written into defs.definitions, each under its ref
_unpack_refs_defs_definitions(d, schema) ==
    IF schema.type # "definitions" THEN d
    ELSE [r \in (DOMAIN d) \cup {s.ref : s \in schema.definitions} |->
            IF \E s \in schema.definitions : s.ref = r
            THEN CHOOSE s \in schema.definitions : s.ref = r
            ELSE d[r]]

\* _unpack_refs_defs, lines 735-736
_unpack_refs_defs(schema) == IF schema.type = "definitions" THEN schema.schema ELSE schema

\* the interpreter's limit on the depth of calls, counted in frames of the model
RecursionLimit == 9
RecursionError == "RecursionError"

\* lines 764-793: a model class has BaseModel.__get_pydantic_core_schema__, which
\* calls handler(source), the re-entrant callback into _generate_schema_inner; a
\* class with a __pydantic_core_schema__ of its own hands that out; any other type
\* has no schema property
from_property_hook(i) ==
    /\ At(i, "_generate_schema_from_property", "hook")
    /\ LET obj == Top(i).obj IN
       CASE obj.k = "model" /\ ~obj.opt ->
              /\ Call(i, [Top(i) EXCEPT !.pc = "hook_ret"],
                      Frame("_generate_schema_inner", Top(i).source))
              /\ UNCHANGED <<ret, exc>>
         [] obj.k = "dataclass" /\ ~obj.opt /\ obj.arg = "" /\ decl[obj.n].core_schema # None ->
              /\ SetTop(i, [Top(i) EXCEPT !.pc = "hook_ret"])
              /\ ret' = [ret EXCEPT ![i] = decl[obj.n].core_schema]
              /\ UNCHANGED exc
         [] obj.k = "hooked" /\ ~obj.opt /\ obj.arg = "call" ->
              /\ Call(i, [Top(i) EXCEPT !.pc = "hook_ret"],
                      Frame("_generate_schema_inner", Top(i).source))
              /\ UNCHANGED <<ret, exc>>
         [] obj.k = "hooked" /\ ~obj.opt /\ obj.arg # "call" ->
              IF Len(stack[i]) >= RecursionLimit
              THEN Raise(i, RecursionError) /\ UNCHANGED <<stack, ret>>
              ELSE /\ Call(i, [Top(i) EXCEPT !.pc = "hook_ret"],
                           NewFrame(i, "generate_schema", Top(i).source))
                   /\ UNCHANGED <<ret, exc>>
         [] OTHER -> Return(i, None) /\ UNCHANGED exc
    /\ UNCHANGED <<env, SCHEMA_CACHE, seen, definitions, model_type_stack,
                   field_name_stack, req, log, expanded>>

\* lines 795-808
from_property_store(i) ==
    /\ At(i, "_generate_schema_from_property", "hook_ret")
    /\ LET schema == _unpack_refs_defs(ret[i])
           unpacked == _unpack_refs_defs_definitions(definitions[i], ret[i])
           ref == get_ref(schema) IN
       IF ref # NoRef
       THEN /\ definitions' = [definitions EXCEPT ![i] = Put(unpacked, ref, schema)]
            /\ Return(i, definition_reference_schema(ref))
       ELSE /\ definitions' = [definitions EXCEPT ![i] = unpacked]
            /\ Return(i, schema)
    /\ UNCHANGED <<env, SCHEMA_CACHE, seen, model_type_stack,
                   field_name_stack, exc, req, log, expanded>>

----------------------------------------------------------------------------
\* GenerateSchema._generate_schema_inner and match_type

_ModelTypeStack_push(s, tp) == Append(s, tp)
_ModelTypeStack_pop(s) == SubSeq(s, 1, Len(s) - 1)
_FieldNameStack_push(s, name) == Append(s, name)
_FieldNameStack_pop(s) == SubSeq(s, 1, Len(s) - 1)

\* lines 868-869
inner_annotated(i) ==
    /\ At(i, "_generate_schema_inner", "start")
    /\ Top(i).obj.meta # <<>>
    /\ Call(i, [Top(i) EXCEPT !.pc = "tail"], Frame("_annotated_schema", Top(i).obj))
    /\ UNCHANGED <<env, SCHEMA_CACHE, seen, definitions, model_type_stack,
                   field_name_stack, ret, exc, req, log, expanded>>

\* lines 883-885
inner_model(i) ==
    /\ At(i, "_generate_schema_inner", "start")
    /\ Top(i).obj.meta = <<>>
    /\ Top(i).obj.k = "model" /\ ~Top(i).obj.opt
    /\ model_type_stack' = [model_type_stack EXCEPT ![i] = _ModelTypeStack_push(@, Top(i).obj)]
    /\ Call(i, [Top(i) EXCEPT !.pc = "model_ret", !.pushed = TRUE],
            Frame("_model_schema", Top(i).obj))
    /\ UNCHANGED <<env, SCHEMA_CACHE, seen, definitions,
                   field_name_stack, ret, exc, req, log, expanded>>

\* line 885: leaving the with block by the return
inner_model_return(i) ==
    /\ At(i, "_generate_schema_inner", "model_ret")
    /\ model_type_stack' = [model_type_stack EXCEPT ![i] = _ModelTypeStack_pop(@)]
    /\ Return(i, ret[i])
    /\ UNCHANGED <<env, SCHEMA_CACHE, seen, definitions,
                   field_name_stack, exc, req, log, expanded>>

\* lines 887-890 and match_type, lines 905-1001, _match_generic_type, lines 1008-1020
\* lines 506-516: an instance check for a class; typing.Self is not a class and gets
\* the schema that accepts anything
_arbitrary_type_schema(tp) ==
    IF tp.k \in {"class", "hooked"} THEN is_instance_schema(tp.n) ELSE any_schema

\* lines 887-890 and match_type, lines 905-1001, _match_generic_type, lines 1008-1049
match_type(i) ==
    /\ At(i, "_generate_schema_inner", "start")
    /\ Top(i).obj.meta = <<>>
    /\ ~(Top(i).obj.k = "model" /\ ~Top(i).obj.opt)
    /\ LET obj == Top(i).obj IN
       CASE obj.opt ->
              /\ Call(i, [Top(i) EXCEPT !.pc = "tail"], Frame("_union_schema", obj))
              /\ UNCHANGED <<ret, exc>>
         [] ~obj.opt /\ obj.k = "dataclass" ->
              /\ Call(i, [Top(i) EXCEPT !.pc = "tail"], Frame("_dataclass_schema", obj))
              /\ UNCHANGED <<ret, exc>>
         [] ~obj.opt /\ obj.k = "typeddict" ->
              /\ Call(i, [Top(i) EXCEPT !.pc = "tail"], Frame("_typed_dict_schema", obj))
              /\ UNCHANGED <<ret, exc>>
         [] ~obj.opt /\ obj.k = "list" ->
              /\ Call(i, [Top(i) EXCEPT !.pc = "tail"], Frame("_list_schema", obj))
              /\ UNCHANGED <<ret, exc>>
         [] ~obj.opt /\ obj.k = "dict" ->
              /\ Call(i, [Top(i) EXCEPT !.pc = "tail"], Frame("_dict_schema", obj))
              /\ UNCHANGED <<ret, exc>>
         [] ~obj.opt /\ obj.k = "union" ->
              /\ Call(i, [Top(i) EXCEPT !.pc = "tail"], Frame("_union_schema", obj))
              /\ UNCHANGED <<ret, exc>>
         [] ~obj.opt /\ obj.k = "tuple" ->
              /\ Call(i, [Top(i) EXCEPT !.pc = "tail"], Frame("_tuple_schema", obj))
              /\ UNCHANGED <<ret, exc>>
         [] ~obj.opt /\ obj.k = "recursive" ->
              /\ Return(i, definition_reference_schema(get_type_ref(DataclassT(obj.n))))
              /\ UNCHANGED exc
         [] ~obj.opt /\ obj.k = "prim" ->
              /\ Return(i, IF obj.n = "int" THEN int_schema ELSE str_schema)
              /\ UNCHANGED exc
         [] ~obj.opt /\ obj.k = "alias" ->
              /\ Call(i, [Top(i) EXCEPT !.pc = "tail"], Frame("_type_alias_type_schema", obj))
              /\ UNCHANGED <<ret, exc>>
         [] ~obj.opt /\ obj.k = "namedtuple" ->
              /\ Call(i, [Top(i) EXCEPT !.pc = "tail"], Frame("_namedtuple_schema", obj))
              /\ UNCHANGED <<ret, exc>>
         [] ~obj.opt /\ obj.k \in {"class", "self", "hooked"} ->
              IF _arbitrary_types(i)
              THEN Return(i, _arbitrary_type_schema(obj)) /\ UNCHANGED exc
              ELSE Raise(i, "PydanticSchemaGenerationError") /\ UNCHANGED <<stack, ret>>
         [] OTHER -> Return(i, any_schema) /\ UNCHANGED exc
    /\ UNCHANGED <<env, SCHEMA_CACHE, seen, definitions, model_type_stack,
                   field_name_stack, req, log, expanded>>

\* the builder match_type called has returned
match_type_return(i) ==
    /\ At(i, "_generate_schema_inner", "tail")
    /\ Return(i, ret[i])
    /\ UNCHANGED <<env, SCHEMA_CACHE, seen, definitions, model_type_stack,
                   field_name_stack, exc, req, log, expanded>>


----------------------------------------------------------------------------
\* GenerateSchema._list_schema, _dict_schema and _annotated_schema

\* line 373: the schema of the items is generated first
list_schema_start(i) ==
    /\ At(i, "_list_schema", "start")
    /\ Call(i, [Top(i) EXCEPT !.pc = "items"],
            NewFrame(i, "generate_schema", Type("prim", Top(i).obj.arg, "")))
    /\ UNCHANGED <<env, SCHEMA_CACHE, seen, definitions, model_type_stack,
                   field_name_stack, ret, exc, req, log, expanded>>

\* line 373
list_schema_return(i) ==
    /\ At(i, "_list_schema", "items")
    /\ Return(i, list_schema(ret[i]))
    /\ UNCHANGED <<env, SCHEMA_CACHE, seen, definitions, model_type_stack,
                   field_name_stack, exc, req, log, expanded>>

\* line 376: the schema of the keys (str) is generated first
dict_schema_start(i) ==
    /\ At(i, "_dict_schema", "start")
    /\ Call(i, [Top(i) EXCEPT !.pc = "keys"], NewFrame(i, "generate_schema", StrT))
    /\ UNCHANGED <<env, SCHEMA_CACHE, seen, definitions, model_type_stack,
                   field_name_stack, ret, exc, req, log, expanded>>

\* line 376: then the schema of the values
dict_schema_values(i) ==
    /\ At(i, "_dict_schema", "keys")
    /\ Call(i, [Top(i) EXCEPT !.pc = "values", !.acc = << ret[i] >>],
            NewFrame(i, "generate_schema", Type("prim", Top(i).obj.arg, "")))
    /\ UNCHANGED <<env, SCHEMA_CACHE, seen, definitions, model_type_stack,
                   field_name_stack, ret, exc, req, log, expanded>>

\* line 376
dict_schema_return(i) ==
    /\ At(i, "_dict_schema", "values")
    /\ Return(i, dict_schema(Top(i).acc[1], ret[i]))
    /\ UNCHANGED <<env, SCHEMA_CACHE, seen, definitions, model_type_stack,
                   field_name_stack, exc, req, log, expanded>>

\* lines 1594-1596 and 1604-1605: the schema of the one parameter is generated first
tuple_schema_start(i) ==
    /\ At(i, "_tuple_schema", "start")
    /\ Call(i, [Top(i) EXCEPT !.pc = "items"],
            NewFrame(i, "generate_schema", Type("prim", Top(i).obj.arg, "")))
    /\ UNCHANGED <<env, SCHEMA_CACHE, seen, definitions, model_type_stack,
                   field_name_stack, ret, exc, req, log, expanded>>

\* line 1596 for Tuple[item, ...], line 1605 for Tuple[item]
tuple_schema_return(i) ==
    /\ At(i, "_tuple_schema", "items")
    /\ Return(i, tuple_schema(<< ret[i] >>, IF Top(i).obj.n = "variadic" THEN 1 ELSE 0))
    /\ UNCHANGED <<env, SCHEMA_CACHE, seen, definitions, model_type_stack,
                   field_name_stack, exc, req, log, expanded>>

\* lines 1991-1995: Annotated[source_type, *annotations]
annotated_schema_start(i) ==
    /\ At(i, "_annotated_schema", "start")
    /\ Call(i, [Top(i) EXCEPT !.pc = "wrap"],
            [Frame("_apply_annotations", AnnotatedT(Top(i).obj, <<>>))
                EXCEPT !.annots = Top(i).obj.meta])
    /\ UNCHANGED <<env, SCHEMA_CACHE, seen, definitions, model_type_stack,
                   field_name_stack, ret, exc, req, log, expanded>>

RECURSIVE annotated_schema_defaults(_, _, _)
\* lines 1998-2000: every FieldInfo item with a default wraps the finished schema
annotated_schema_defaults(schema, annotations, k) ==
    IF k > Len(annotations) THEN schema
    ELSE annotated_schema_defaults(
             IF annotations[k].kind = "default" THEN with_default_schema(schema) ELSE schema,
             annotations, k + 1)

\* lines 1996-2001
annotated_schema_return(i) ==
    /\ At(i, "_annotated_schema", "wrap")
    /\ Return(i, annotated_schema_defaults(ret[i], Top(i).obj.meta, 1))
    /\ UNCHANGED <<env, SCHEMA_CACHE, seen, definitions, model_type_stack,
                   field_name_stack, exc, req, log, expanded>>

----------------------------------------------------------------------------
\* GenerateSchema._model_schema

\* _common_field, lines 2432-2449; node is the identity of the schema object, named
\* by the field expansion that built it: the instance, the record's ref, the field
_common_field(schema, node, validation_alias, serialization_alias) ==
    [type |-> "common-field", schema |-> schema, node |-> node,
     validation_alias |-> validation_alias, serialization_alias |-> serialization_alias]

\* a check that lets every decorator pass
check_decorator_fields_exist_skipped(decorators, fields) == TRUE

\* lines 191-215: no decorator names a field the class lacks, unless it names '*' or was
\* declared with check_fields=False
check_decorator_fields_exist(decorators, fields) ==
    \A j \in 1..Len(decorators) :
       \/ "*" \in decorators[j].fields
       \/ ~decorators[j].check_fields
       \/ decorators[j].fields \subseteq fields

\* __pydantic_fields__.keys() and decorators.computed_fields.keys(), lines 642-643
field_and_computed_names(cls) ==
    {decl[cls.n].fields[j].name : j \in 1..Len(decl[cls.n].fields)}
       \cup decl[cls.n].computed_fields

DecoratorMissingField == "PydanticUserError: decorator-missing-field"

\* lines 630-649: the scope is entered, the decorators are checked, then the config is
\* pushed (the decorators of the class that the fields do not imply are the ones in
\* its declaration)
model_schema_enter(i) ==
    /\ At(i, "_model_schema", "start")
    /\ LET cls == Top(i).obj
           model_ref == get_type_ref(cls) IN
       IF get_schema_or_ref_found(i, model_ref)
       THEN /\ Return(i, definition_reference_schema(model_ref))
            /\ seen' = [seen EXCEPT ![i] = get_schema_or_ref_found_exit(@, model_ref)]
            /\ UNCHANGED expanded
            /\ UNCHANGED exc
       ELSE /\ seen' = [seen EXCEPT ![i] = get_schema_or_ref_enter(@, model_ref)]
            /\ IF check_decorator_fields_exist(decl[cls.n].field_validators,
                                               field_and_computed_names(cls))
               THEN /\ expanded' = [expanded EXCEPT ![i] = Append(@, model_ref)]
                    /\ SetTop(i, [Top(i) EXCEPT !.pc = "fields", !.ref = model_ref,
                                                !.owned = TRUE, !.cfg = decl[cls.n].config])
                    /\ UNCHANGED exc
               ELSE /\ Raise(i, DecoratorMissingField)
                    /\ SetTop(i, [Top(i) EXCEPT !.ref = model_ref, !.owned = TRUE])
                    /\ UNCHANGED expanded
            /\ UNCHANGED ret
    /\ UNCHANGED <<env, SCHEMA_CACHE, definitions, model_type_stack,
                   field_name_stack, req, log>>

\* line 697: the next field, in declaration order
model_schema_field(i) ==
    /\ At(i, "_model_schema", "fields")
    /\ Top(i).idx <= Len(decl[Top(i).obj.n].fields)
    /\ Call(i, [Top(i) EXCEPT !.pc = "field_ret"],
            [Frame("_common_field_schema", Top(i).obj)
                EXCEPT !.field = decl[Top(i).obj.n].fields[Top(i).idx]])
    /\ UNCHANGED <<env, SCHEMA_CACHE, seen, definitions, model_type_stack,
                   field_name_stack, ret, exc, req, log, expanded>>

\* _generate_md_field_schema, lines 1077-1085
model_schema_field_return(i) ==
    /\ At(i, "_model_schema", "field_ret")
    /\ SetTop(i, [Top(i) EXCEPT
                    !.pc = "fields", !.idx = @ + 1,
                    !.acc = Append(@, field_of_common_field(
                                         decl[Top(i).obj.n].fields[Top(i).idx].name, ret[i]))])
    /\ UNCHANGED <<env, SCHEMA_CACHE, seen, definitions, model_type_stack,
                   field_name_stack, ret, exc, req, log, expanded>>

\* f without the key k (dict.pop)
Remove(f, k) == [x \in (DOMAIN f) \ {k} |-> f[x]]

\* @model_validator(mode=mode) on the function func
ModelValidator(mode, func) == [mode |-> mode, func |-> func]

\* a pass that skips no validator
model_validator_applies_always(mode, validator_mode) == TRUE

\* lines 2339-2343: 'inner' skips all but the 'before' validators, 'outer' skips them
model_validator_applies(mode, validator_mode) ==
    /\ ~(mode = "inner" /\ validator_mode # "before")
    /\ ~(mode = "outer" /\ validator_mode = "before")

RECURSIVE apply_model_validators_from(_, _, _, _)
\* lines 2339-2361: the loop, from the k-th validator on
apply_model_validators_from(schema, validators, mode, k) ==
    IF k > Len(validators) THEN schema
    ELSE LET validator == validators[k]
             next == IF ~model_validator_applies(mode, validator.mode) THEN schema
                     ELSE IF validator.mode = "wrap"
                     THEN wrap_validator_function(validator.func, schema)
                     ELSE IF validator.mode = "before"
                     THEN before_validator_function(validator.func, schema)
                     ELSE after_validator_function(validator.func, schema)
         IN apply_model_validators_from(next, validators, mode, k + 1)

\* lines 2320-2364: the ref is popped off the schema, the validators of the pass wrap
\* it, and the ref is set on what comes out
apply_model_validators(schema, validators, mode) ==
    LET ref == get_ref(schema)
        wrapped == apply_model_validators_from(Remove(schema, "ref"), validators, mode, 1)
    IN IF ref # NoRef THEN Put(wrapped, "ref", ref) ELSE wrapped

\* core_schema.model_fields_schema and core_schema.dataclass_args_schema
model_fields_schema(fields) == [type |-> "model-fields", fields |-> fields]
dataclass_args_schema(fields) == [type |-> "dataclass-args", fields |-> fields]

\* core_schema.model_schema and core_schema.dataclass_schema around an inner schema: a
\* node whose inner schema is the plain fields schema is written with the fields in
\* the node itself, any other has the inner schema under the key schema
record_schema(node, inner) ==
    IF inner.type \in {"model-fields", "dataclass-args"} THEN node
    ELSE Put(Remove(node, "fields"), "schema", inner)

\* lines 709-726, then the scope is left
model_schema_finish(i) ==
    /\ At(i, "_model_schema", "fields")
    /\ Top(i).idx > Len(decl[Top(i).obj.n].fields)
    /\ LET model_ref == Top(i).ref
           model_validators == decl[Top(i).obj.n].model_validators
           inner_schema == apply_model_validators(model_fields_schema(Top(i).acc),
                                                  model_validators, "inner")
           schema == apply_model_validators(
                         _apply_model_serializers(
                            record_schema(model_schema(Top(i).obj.n, Top(i).acc, Top(i).cfg,
                                                       model_ref),
                                          inner_schema),
                            decl[Top(i).obj.n].model_serializers),
                         model_validators, "outer") IN
       /\ definitions' = [definitions EXCEPT ![i] = Put(@, model_ref, schema)]
       /\ seen' = [seen EXCEPT ![i] = get_schema_or_ref_exit(@, model_ref, FALSE)]
       /\ Return(i, definition_reference_schema(model_ref))
    /\ UNCHANGED <<env, SCHEMA_CACHE, model_type_stack,
                   field_name_stack, exc, req, log, expanded>>

----------------------------------------------------------------------------
\* GenerateSchema._dataclass_schema

\* lines 1765-1768: the fields with the typevars map of this specialization applied
dataclass_fields(cls) ==
    [j \in 1..Len(decl[cls.n].fields) |->
        [decl[cls.n].fields[j] EXCEPT !.annotation = replace_types(@, cls.arg)]]

\* lines 1748-1763: both context managers are entered; when the ref is known the
\* return leaves both at once
dataclass_schema_enter(i) ==
    /\ At(i, "_dataclass_schema", "start")
    /\ LET dataclass == Top(i).obj
           dataclass_ref == get_type_ref(dataclass) IN
       IF get_schema_or_ref_found(i, dataclass_ref)
       THEN /\ Return(i, definition_reference_schema(dataclass_ref))
            /\ seen' = [seen EXCEPT ![i] = get_schema_or_ref_found_exit(@, dataclass_ref)]
            /\ UNCHANGED <<expanded, model_type_stack>>
       ELSE /\ model_type_stack' =
                 [model_type_stack EXCEPT ![i] = _ModelTypeStack_push(@, dataclass)]
            /\ seen' = [seen EXCEPT ![i] = get_schema_or_ref_enter(@, dataclass_ref)]
            /\ expanded' = [expanded EXCEPT ![i] = Append(@, dataclass_ref)]
            /\ SetTop(i, [Top(i) EXCEPT !.pc = "fields", !.ref = dataclass_ref,
                                        !.owned = TRUE, !.pushed = TRUE,
                                        !.cfg = decl[dataclass.n].config])
            /\ UNCHANGED ret
    /\ UNCHANGED <<env, SCHEMA_CACHE, definitions,
                   field_name_stack, exc, req, log>>

\* line 1789
dataclass_schema_field(i) ==
    /\ At(i, "_dataclass_schema", "fields")
    /\ Top(i).idx <= Len(dataclass_fields(Top(i).obj))
    /\ Call(i, [Top(i) EXCEPT !.pc = "field_ret"],
            [Frame("_common_field_schema", Top(i).obj)
                EXCEPT !.field = dataclass_fields(Top(i).obj)[Top(i).idx]])
    /\ UNCHANGED <<env, SCHEMA_CACHE, seen, definitions, model_type_stack,
                   field_name_stack, ret, exc, req, log, expanded>>

\* _generate_dc_field_schema, lines 1094-1106
dataclass_schema_field_return(i) ==
    /\ At(i, "_dataclass_schema", "field_ret")
    /\ SetTop(i, [Top(i) EXCEPT
                    !.pc = "fields", !.idx = @ + 1,
                    !.acc = Append(@, field_of_common_field(
                                         decl[Top(i).obj.n].fields[Top(i).idx].name, ret[i]))])
    /\ UNCHANGED <<env, SCHEMA_CACHE, seen, definitions, model_type_stack,
                   field_name_stack, ret, exc, req, log, expanded>>

\* lines 1795-1828, then both context managers are left
dataclass_schema_finish(i) ==
    /\ At(i, "_dataclass_schema", "fields")
    /\ Top(i).idx > Len(dataclass_fields(Top(i).obj))
    /\ LET dataclass_ref == Top(i).ref
           model_validators == decl[Top(i).obj.n].model_validators
           inner_schema == apply_model_validators(dataclass_args_schema(Top(i).acc),
                                                  model_validators, "inner")
           schema == apply_model_validators(
                         _apply_model_serializers(
                            record_schema(dataclass_schema(Top(i).obj.n, Top(i).acc,
                                                           Top(i).cfg, dataclass_ref),
                                          inner_schema),
                            decl[Top(i).obj.n].model_serializers),
                         model_validators, "outer") IN
       /\ definitions' = [definitions EXCEPT ![i] = Put(@, dataclass_ref, schema)]
       /\ seen' = [seen EXCEPT ![i] = get_schema_or_ref_exit(@, dataclass_ref, FALSE)]
       /\ model_type_stack' = [model_type_stack EXCEPT ![i] = _ModelTypeStack_pop(@)]
       /\ Return(i, definition_reference_schema(dataclass_ref))
    /\ UNCHANGED <<env, SCHEMA_CACHE,
                   field_name_stack, exc, req, log, expanded>>

----------------------------------------------------------------------------
\* GenerateSchema._typed_dict_schema

\* lines 1413-1431: a typed dict without __pydantic_config__ pushes None, which leaves
\* the config of the enclosing record in force
typed_dict_schema_enter(i) ==
    /\ At(i, "_typed_dict_schema", "start")
    /\ LET typed_dict_cls == Top(i).obj
           typed_dict_ref == get_type_ref(typed_dict_cls) IN
       IF get_schema_or_ref_found(i, typed_dict_ref)
       THEN /\ Return(i, definition_reference_schema(typed_dict_ref))
            /\ seen' = [seen EXCEPT ![i] = get_schema_or_ref_found_exit(@, typed_dict_ref)]
            /\ UNCHANGED <<expanded, model_type_stack>>
       ELSE /\ model_type_stack' =
                 [model_type_stack EXCEPT ![i] = _ModelTypeStack_push(@, typed_dict_cls)]
            /\ seen' = [seen EXCEPT ![i] = get_schema_or_ref_enter(@, typed_dict_ref)]
            /\ expanded' = [expanded EXCEPT ![i] = Append(@, typed_dict_ref)]
            /\ SetTop(i, [Top(i) EXCEPT !.pc = "fields", !.ref = typed_dict_ref,
                                        !.owned = TRUE, !.pushed = TRUE,
                                        !.cfg = decl[typed_dict_cls.n].config])
            /\ UNCHANGED ret
    /\ UNCHANGED <<env, SCHEMA_CACHE, definitions,
                   field_name_stack, exc, req, log>>

\* lines 1455-1480
typed_dict_schema_field(i) ==
    /\ At(i, "_typed_dict_schema", "fields")
    /\ Top(i).idx <= Len(decl[Top(i).obj.n].fields)
    /\ Call(i, [Top(i) EXCEPT !.pc = "field_ret"],
            [Frame("_common_field_schema", Top(i).obj)
                EXCEPT !.field = decl[Top(i).obj.n].fields[Top(i).idx]])
    /\ UNCHANGED <<env, SCHEMA_CACHE, seen, definitions, model_type_stack,
                   field_name_stack, ret, exc, req, log, expanded>>

\* _generate_td_field_schema, lines 1059-1075
typed_dict_schema_field_return(i) ==
    /\ At(i, "_typed_dict_schema", "field_ret")
    /\ SetTop(i, [Top(i) EXCEPT
                    !.pc = "fields", !.idx = @ + 1,
                    !.acc = Append(@, field_of_common_field(
                                         decl[Top(i).obj.n].fields[Top(i).idx].name, ret[i]))])
    /\ UNCHANGED <<env, SCHEMA_CACHE, seen, definitions, model_type_stack,
                   field_name_stack, ret, exc, req, log, expanded>>

\* lines 1482-1500: core_config is taken from the config in force
typed_dict_schema_finish(i) ==
    /\ At(i, "_typed_dict_schema", "fields")
    /\ Top(i).idx > Len(decl[Top(i).obj.n].fields)
    /\ LET typed_dict_ref == Top(i).ref
           schema == apply_model_validators(
                         _apply_model_serializers(
                            typed_dict_schema(Top(i).obj.n, Top(i).acc, _config_wrapper(i),
                                              typed_dict_ref),
                            decl[Top(i).obj.n].model_serializers),
                         decl[Top(i).obj.n].model_validators, "all") IN
       /\ definitions' = [definitions EXCEPT ![i] = Put(@, typed_dict_ref, schema)]
       /\ seen' = [seen EXCEPT ![i] = get_schema_or_ref_exit(@, typed_dict_ref, FALSE)]
       /\ model_type_stack' = [model_type_stack EXCEPT ![i] = _ModelTypeStack_pop(@)]
       /\ Return(i, definition_reference_schema(typed_dict_ref))
    /\ UNCHANGED <<env, SCHEMA_CACHE,
                   field_name_stack, exc, req, log, expanded>>

----------------------------------------------------------------------------
\* GenerateSchema._common_field_schema

\* decorators.field_validators.values(): the @field_validator functions of the class in
\* declaration order, those that name one field first
field_validators(cls) ==
    LET fs == decl[cls.n].fields
        own == [j \in 1..Len(fs) |->
                  [Decorator(<<cls.n, fs[j].name>>, "after", {fs[j].name})
                      EXCEPT !.fields = IF fs[j].validated THEN @ ELSE {}]]
    IN SelectSeq(own, LAMBDA d : d.fields # {}) \o decl[cls.n].field_validators

\* lines 170-188
check_validator_fields_against_field_name(info, field) ==
    "*" \in info.fields \/ field \in info.fields

\* lines 215-218
filter_field_decorator_info_by_field(validator_functions, field) ==
    SelectSeq(validator_functions,
              LAMBDA dec : check_validator_fields_against_field_name(dec, field))

\* lines 1258-1261: the validators that the owning class declares for this field
validators_from_decorators(cls, field) ==
    LET decs == filter_field_decorator_info_by_field(field_validators(cls), field.name)
    IN [j \in 1..Len(decs) |-> Validator(decs[j].mode, decs[j].func)]

\* lines 1230-1233: a forward reference evaluates to the class of that name
eval_type(tp) == IF tp.k = "forward" THEN [ModelT(tp.n) EXCEPT !.opt = tp.opt] ELSE tp

\* FieldInfo.cache_key: the evaluated type and the metadata of the field
field_info_cache_key(source_type, metadata) == <<source_type, metadata>>

\* line 1275
cache_key(i, source_type, metadata) ==
    <<field_info_cache_key(source_type, metadata), _config_wrapper(i).use_enum_values>>

\* lines 1228-1272: the annotation is evaluated before the name is pushed
common_field_start(i) ==
    /\ At(i, "_common_field_schema", "start")
    /\ LET field == Top(i).field IN
       IF field.annotation.k = "forward" /\ field.annotation.n \notin ns
       THEN /\ Raise(i, "PydanticUndefinedAnnotation")
            /\ UNCHANGED <<stack, field_name_stack>>
       ELSE LET source_type == eval_type(field.annotation)
                annotations == field.metadata \o validators_from_decorators(Top(i).obj, field) IN
            /\ field_name_stack' =
                 [field_name_stack EXCEPT ![i] = _FieldNameStack_push(@, field.name)]
            /\ Call(i, [Top(i) EXCEPT !.pc = IF field.discriminator # "" THEN "discriminated"
                                              ELSE "first",
                                      !.pushed = TRUE, !.runs = @ + 1,
                                      !.source = source_type, !.annots = annotations],
                    [Frame("_apply_annotations", source_type)
                        EXCEPT !.annots = annotations,
                               !.discriminator = field.discriminator])
            /\ UNCHANGED exc
    /\ UNCHANGED <<env, SCHEMA_CACHE, seen, definitions, model_type_stack,
                   ret, req, log, expanded>>

\* lines 1273-1284: the result of the first run is dropped and the cache is asked
common_field_cache(i) ==
    /\ At(i, "_common_field_schema", "first")
    /\ LET key == cache_key(i, Top(i).source, Top(i).field.metadata) IN
       IF key \in DOMAIN SCHEMA_CACHE
       THEN /\ field_name_stack' = [field_name_stack EXCEPT ![i] = _FieldNameStack_pop(@)]
            /\ SetTop(i, [Top(i) EXCEPT !.pc = "post", !.node = SCHEMA_CACHE[key].node])
            /\ ret' = [ret EXCEPT ![i] = SCHEMA_CACHE[key].schema]
       ELSE /\ Call(i, [Top(i) EXCEPT !.pc = "second", !.runs = @ + 1],
                    [Frame("_apply_annotations", Top(i).source)
                        EXCEPT !.annots = Top(i).annots])
            /\ UNCHANGED <<field_name_stack, ret>>
    /\ UNCHANGED <<env, SCHEMA_CACHE, seen, definitions, model_type_stack,
                   exc, req, log, expanded>>

\* lines 1285-1286 and the end of the with block
common_field_store(i) ==
    /\ At(i, "_common_field_schema", "second")
    /\ LET key == cache_key(i, Top(i).source, Top(i).field.metadata)
           node == <<i, stack[i][Len(stack[i]) - 1].ref, Top(i).field.name>> IN
       /\ SCHEMA_CACHE' = IF key \in DOMAIN SCHEMA_CACHE THEN SCHEMA_CACHE
                          ELSE Put(SCHEMA_CACHE, key, [schema |-> ret[i], node |-> node])
       /\ SetTop(i, [Top(i) EXCEPT !.pc = "post", !.node = node])
    /\ field_name_stack' = [field_name_stack EXCEPT ![i] = _FieldNameStack_pop(@)]
    /\ UNCHANGED <<env, seen, definitions, model_type_stack,
                   ret, exc, req, log, expanded>>

\* lines 1264-1267 and the end of the with block: the schema of a field with a
\* discriminator is the one its own pipeline built, the cache is not asked
common_field_discriminated(i) ==
    /\ At(i, "_common_field_schema", "discriminated")
    /\ SetTop(i, [Top(i) EXCEPT
                    !.pc = "post",
                    !.node = <<i, stack[i][Len(stack[i]) - 1].ref, Top(i).field.name>>])
    /\ field_name_stack' = [field_name_stack EXCEPT ![i] = _FieldNameStack_pop(@)]
    /\ UNCHANGED <<env, SCHEMA_CACHE, seen, definitions, model_type_stack,
                   ret, exc, req, log, expanded>>

TypeError == [type |-> "TypeError"]

RECURSIVE apply_validators(_, _, _)
\* lines 2279-2301: the V1 validators wrap the schema in their order
apply_validators(schema, validators, k) ==
    IF k > Len(validators) THEN schema
    ELSE apply_validators(after_validator_function(validators[k].func, schema),
                          validators, k + 1)

RECURSIVE apply_each_item_validators(_, _)
\* lines 224-258: the schema object it is given is changed in place and returned
apply_each_item_validators(schema, each_item_validators) ==
    IF each_item_validators = <<>> THEN schema
    ELSE IF schema.type = "nullable"
    THEN LET inner == apply_each_item_validators(schema.schema, each_item_validators)
         IN IF inner = TypeError THEN TypeError ELSE [schema EXCEPT !.schema = inner]
    ELSE IF schema.type = "tuple"
    THEN IF schema.variadic_item_index # 0
         THEN [schema EXCEPT !.items_schema[schema.variadic_item_index] =
                                 apply_validators(@, each_item_validators, 1)]
         ELSE schema
    ELSE IF schema.type = "list"
    THEN [schema EXCEPT !.items_schema = apply_validators(@, each_item_validators, 1)]
    ELSE IF schema.type = "dict"
    THEN [schema EXCEPT !.values_schema = apply_validators(@, each_item_validators, 1)]
    ELSE TypeError

\* lines 2367-2388
wrap_default(field_info, schema) ==
    IF field_info.default THEN with_default_schema(schema) ELSE schema

\* lines 1292-1296: the V1 validators of the class that name the field
this_field_validators(cls, field, each_item) ==
    IF field.v1 = (IF each_item THEN "each_item" ELSE "field")
    THEN << Decorator(<<cls.n, field.name>>, "after", {field.name}) >>
    ELSE <<>>

\* the default wrapped first and the validators around it
common_field_schema_default_inside(schema, field, validators) ==
    apply_validators(wrap_default(field, schema), validators, 1)

\* lines 1299-1305: the V1 validators, then the default outside them
common_field_schema_wrapped(schema, field, validators) ==
    wrap_default(field, apply_validators(schema, validators, 1))

\* lines 2166-2204: with a serializer the schema is copied; a copy with a ref is stored
\* in defs.definitions and a reference takes its place
_apply_field_serializers(schema, serializers) ==
    IF serializers = <<>> THEN schema
    ELSE Put(IF get_ref(schema) # NoRef THEN definition_reference_schema(get_ref(schema))
             ELSE schema,
             "serialization", used_serializer(serializers))

\* lines 2172-2175
_apply_field_serializers_definitions(defs, schema, serializers) ==
    IF serializers # <<>> /\ get_ref(schema) # NoRef
    THEN Put(defs, get_ref(schema), schema) ELSE defs

RECURSIVE Replaced(_, _, _)
\* the schema s after the object with content old, which s holds, got the content new
Replaced(s, old, new) ==
    IF s = old THEN new
    ELSE IF s.type \in {"nullable", "function-after", "function-before", "function-wrap",
                        "default"}
    THEN [s EXCEPT !.schema = Replaced(@, old, new)]
    ELSE s

\* the field lists that hold the schema object node, after its content changed
ReplacedFields(fields, node, old, new) ==
    [j \in 1..Len(fields) |->
        IF "node" \in DOMAIN fields[j] /\ fields[j].node = node
        THEN [fields[j] EXCEPT !.schema = Replaced(@, old, new)]
        ELSE fields[j]]

\* AliasGenerator.generate_aliases: each function the generator has is applied to the
\* field name; "" is None
generated_alias(function, field_name) ==
    IF function = "" THEN "" ELSE function \o "_" \o field_name
generate_aliases(alias_generator, field_name) ==
    [alias |-> generated_alias(alias_generator.alias, field_name),
     validation_alias |-> generated_alias(alias_generator.validation_alias, field_name),
     serialization_alias |-> generated_alias(alias_generator.serialization_alias, field_name)]

_get_first_non_null(a, b) == IF a # "" THEN a ELSE b

\* an application that overwrites the aliases whatever the priority
_apply_alias_generator_priority_ignored(alias_priority) == 1

\* lines 1138-1141: a priority that is not set, or at most 1, becomes 1
_apply_alias_generator_priority(alias_priority) ==
    IF alias_priority <= 1 THEN 1 ELSE alias_priority

\* lines 1108-1156: the FieldInfo as the method leaves it
_apply_alias_generator_to_field_info(alias_generator, field_info, field_name) ==
    IF \/ field_info.alias_priority <= 1
       \/ field_info.alias = ""
       \/ field_info.validation_alias = ""
       \/ field_info.serialization_alias = ""
    THEN LET g == generate_aliases(alias_generator[1], field_name)
             alias_priority == _apply_alias_generator_priority(field_info.alias_priority)
             overwritten ==
                IF alias_priority = 1
                THEN [field_info EXCEPT
                        !.alias_priority = 1,
                        !.serialization_alias = _get_first_non_null(g.serialization_alias, g.alias),
                        !.validation_alias = _get_first_non_null(g.validation_alias, g.alias),
                        !.alias = g.alias]
                ELSE field_info
         IN [overwritten EXCEPT
               !.alias = IF @ = "" THEN g.alias ELSE @,
               !.serialization_alias =
                  IF @ = "" THEN _get_first_non_null(g.serialization_alias, g.alias) ELSE @,
               !.validation_alias =
                  IF @ = "" THEN _get_first_non_null(g.validation_alias, g.alias) ELSE @]
    ELSE field_info

\* lines 1318-1320
common_field_info(i, field) ==
    IF _config_wrapper(i).alias_generator # NoGenerator
    THEN _apply_alias_generator_to_field_info(_config_wrapper(i).alias_generator, field,
                                              field.name)
    ELSE field

\* the FieldInfo objects of a model are those of its __pydantic_fields__ (line 634):
\* what _apply_alias_generator_to_field_info wrote stays in the declaration; a dataclass
\* hands out copies (line 1765) and a typed dict builds new ones (line 1480)
fields_after(cls, fields, field_info) ==
    IF cls.k = "model"
    THEN [j \in 1..Len(fields) |->
            IF fields[j].name = field_info.name
            THEN [fields[j] EXCEPT !.alias = field_info.alias,
                                   !.validation_alias = field_info.validation_alias,
                                   !.serialization_alias = field_info.serialization_alias,
                                   !.alias_priority = field_info.alias_priority]
            ELSE fields[j]]
    ELSE fields

\* the rest of _common_field_schema, lines 1288-1334.  apply_each_item_validators
\* changes the schema object in place: the change shows in SCHEMA_CACHE and in every
\* field list that holds the object.
common_field_finish(i) ==
    /\ At(i, "_common_field_schema", "post")
    /\ LET field == Top(i).field
           node == Top(i).node
           pushed == apply_each_item_validators(
                         ret[i], this_field_validators(Top(i).obj, field, TRUE))
           wrapped == common_field_schema_wrapped(
                         pushed, field, this_field_validators(Top(i).obj, field, FALSE)) IN
       IF pushed = TypeError
       THEN /\ Raise(i, "TypeError")
            /\ UNCHANGED <<stack, ret, SCHEMA_CACHE, definitions, decl>>
       ELSE /\ ret' = [ret EXCEPT ![i] = _common_field(
                          _apply_field_serializers(wrapped, field.serializer), node,
                          common_field_info(i, field).validation_alias,
                          common_field_info(i, field).serialization_alias)]
            /\ decl' = [decl EXCEPT ![Top(i).obj.n].fields =
                          fields_after(Top(i).obj, @, common_field_info(i, field))]
            /\ stack' =
                 [j \in Insts |->
                    LET frames == IF j = i THEN SubSeq(stack[j], 1, Len(stack[j]) - 1)
                                  ELSE stack[j]
                    IN [m \in 1..Len(frames) |->
                          [frames[m] EXCEPT !.acc = ReplacedFields(@, node, ret[i], pushed)]]]
            /\ SCHEMA_CACHE' =
                 [k \in DOMAIN SCHEMA_CACHE |->
                    IF SCHEMA_CACHE[k].node = node
                    THEN [SCHEMA_CACHE[k] EXCEPT !.schema = pushed]
                    ELSE SCHEMA_CACHE[k]]
            /\ definitions' =
                 [j \in Insts |->
                    LET aliased == [r \in DOMAIN definitions[j] |->
                                      IF "fields" \in DOMAIN definitions[j][r]
                                      THEN [definitions[j][r] EXCEPT
                                              !.fields = ReplacedFields(@, node, ret[i], pushed)]
                                      ELSE definitions[j][r]]
                    IN IF j = i
                       THEN _apply_field_serializers_definitions(aliased, wrapped,
                                                                 field.serializer)
                       ELSE aliased]
            /\ UNCHANGED exc
    /\ UNCHANGED <<ns, config, process, seen, model_type_stack, field_name_stack, req, log,
                   expanded>>

----------------------------------------------------------------------------
\* GenerateSchema._apply_annotations and _union_schema

\* _known_annotated_metadata.apply_known_metadata: a known constraint becomes a field
\* of the schema it is given; anything else is not known
apply_known_metadata(metadata, schema) ==
    IF metadata.kind = "known" THEN Put(schema, metadata.func, TRUE) ELSE None

\* lines 2102 and 2109: ref + '_' + repr(metadata)
new_ref(ref, metadata) == <<ref[1], ref[2], ref[3] \o "_" \o metadata.func>>

\* a specialization that writes the derived ref into the schema it was given
_apply_single_annotation_copy_shared(schema) == FALSE

\* lines 2100-2101 and 2108: the schema is copied before the derived ref is written
_apply_single_annotation_copy(schema) == TRUE

\* a fallback that hands out the copy that got the derived ref
apply_known_metadata_or_copy(metadata, schema, original_schema) ==
    LET maybe_updated_schema == apply_known_metadata(metadata, schema)
    IN IF maybe_updated_schema # None THEN maybe_updated_schema ELSE schema

\* lines 2114-2118
apply_known_metadata_or_original(metadata, schema, original_schema) ==
    LET maybe_updated_schema == apply_known_metadata(metadata, schema)
    IN IF maybe_updated_schema # None THEN maybe_updated_schema ELSE original_schema

RECURSIVE _apply_single_annotation(_, _, _)
\* lines 2080-2118 (a FieldInfo item has no metadata of its own and no discriminator)
_apply_single_annotation(schema, metadata, defs) ==
    IF metadata.kind = "default" THEN schema
    ELSE IF schema.type = "nullable"
    THEN [schema EXCEPT !.schema = _apply_single_annotation(@, metadata, defs)]
    ELSE IF get_ref(schema) # NoRef
    THEN IF new_ref(get_ref(schema), metadata) \in DOMAIN defs
         THEN defs[new_ref(get_ref(schema), metadata)]
         ELSE apply_known_metadata_or_original(
                  metadata, [schema EXCEPT !.ref = new_ref(@, metadata)], schema)
    ELSE IF schema.type = "definition-ref" /\ schema.schema_ref \in DOMAIN defs
    THEN IF new_ref(schema.schema_ref, metadata) \in DOMAIN defs
         THEN defs[new_ref(schema.schema_ref, metadata)]
         ELSE apply_known_metadata_or_original(
                  metadata,
                  [defs[schema.schema_ref] EXCEPT !.ref = new_ref(@, metadata)], schema)
    ELSE apply_known_metadata_or_original(metadata, schema, schema)

\* what _apply_single_annotation leaves in defs.definitions: it writes the derived ref
\* into a copy, so the node stored under the original ref keeps its ref
_apply_single_annotation_definitions(schema, metadata, defs) ==
    LET ref == IF get_ref(schema) # NoRef THEN get_ref(schema)
               ELSE IF schema.type = "definition-ref" THEN schema.schema_ref ELSE NoRef
    IN IF /\ ref \in DOMAIN defs
          /\ metadata.kind # "default"
          /\ new_ref(ref, metadata) \notin DOMAIN defs
          /\ ~_apply_single_annotation_copy(schema)
       THEN [defs EXCEPT ![ref].ref = new_ref(ref, metadata)]
       ELSE defs

\* annotation.__get_pydantic_core_schema__(source, handler) of the validator classes,
\* which wrap handler(source); an item without that method gives handler(source)
metadata_get_schema(annotation, schema) ==
    IF annotation.kind = "serializer" THEN Put(schema, "serialization", annotation.func)
    ELSE IF annotation.kind # "validator" THEN schema
    ELSE CASE annotation.mode = "after" -> after_validator_function(annotation.func, schema)
           [] annotation.mode = "before" -> before_validator_function(annotation.func, schema)
           [] annotation.mode = "wrap" -> wrap_validator_function(annotation.func, schema)

\* _get_wrapped_inner_schema.new_handler, lines 2148-2156
new_handler(schema, annotation, defs) ==
    _apply_single_annotation(metadata_get_schema(annotation, schema), annotation, defs)

\* the items folded last to first
RECURSIVE _apply_annotations_reversed(_, _, _, _)
_apply_annotations_reversed(schema, annotations, k, defs) ==
    IF k > Len(annotations) THEN schema
    ELSE new_handler(_apply_annotations_reversed(schema, annotations, k + 1, defs),
                     annotations[k], defs)

RECURSIVE _apply_annotations_from(_, _, _, _)
\* lines 2069-2076: a None item is passed over
_apply_annotations_from(schema, annotations, k, defs) ==
    IF k > Len(annotations) THEN schema
    ELSE IF annotations[k] = NoneItem
    THEN _apply_annotations_from(schema, annotations, k + 1, defs)
    ELSE _apply_annotations_from(new_handler(schema, annotations[k], defs),
                                 annotations, k + 1, defs)

\* lines 2065-2073: each item's handler wraps the handler of the items before it, so
\* the items are applied to the inner schema first to last
_apply_annotations(schema, annotations, k, defs) ==
    _apply_annotations_from(schema, annotations, k, defs)

RECURSIVE _apply_annotations_definitions(_, _, _, _)
\* defs.definitions after the items were applied
_apply_annotations_definitions(schema, annotations, k, defs) ==
    IF k > Len(annotations) THEN defs
    ELSE IF annotations[k] = NoneItem
    THEN _apply_annotations_definitions(schema, annotations, k + 1, defs)
    ELSE _apply_annotations_definitions(
             new_handler(schema, annotations[k], defs), annotations, k + 1,
             _apply_single_annotation_definitions(
                 metadata_get_schema(annotations[k], schema), annotations[k], defs))

----------------------------------------------------------------------------
\* GenerateSchema._apply_discriminator_to_union and the _discriminated_union module

MissingDefinitionForUnionRef == [type |-> "MissingDefinitionForUnionRef"]
MissingDiscriminatorTag == [type |-> "MissingDiscriminatorTag"]

\* the member has a field of the discriminator's name
has_tag(schema, discriminator) ==
    /\ "fields" \in DOMAIN schema
    /\ \E k \in 1..Len(schema.fields) : schema.fields[k].name = discriminator

RECURSIVE apply_discriminator_choices(_, _, _, _)
\* the members in their order: a reference whose definition is not at hand stops the
\* application with MissingDefinitionForUnionRef, a member without the tag field with
\* the user error
apply_discriminator_choices(choices, k, discriminator, defs) ==
    IF k > Len(choices) THEN None
    ELSE IF choices[k].type = "definition-ref" /\ choices[k].schema_ref \notin DOMAIN defs
    THEN MissingDefinitionForUnionRef
    ELSE IF ~has_tag(IF choices[k].type = "definition-ref" THEN defs[choices[k].schema_ref]
                     ELSE choices[k],
                     discriminator)
    THEN MissingDiscriminatorTag
    ELSE apply_discriminator_choices(choices, k + 1, discriminator, defs)

\* _discriminated_union.apply_discriminator(schema, discriminator, definitions)
apply_discriminator(schema, discriminator, defs) ==
    LET failed == apply_discriminator_choices(schema.choices, 1, discriminator, defs)
    IN IF failed # None THEN failed
       ELSE tagged_union_schema(schema.choices, discriminator)

\* _discriminated_union.set_discriminator_in_metadata: the union node keeps the
\* discriminator that is still to be applied
set_discriminator_in_metadata(schema, discriminator) == Put(schema, "metadata", discriminator)

\* an immediate application that is handed the definitions of the instance
apply_discriminator_definitions_resolved(defs) == defs

\* lines 535-538: apply_discriminator is called without definitions
apply_discriminator_definitions(defs) == <<>>

\* a deferral that records nothing
_apply_discriminator_to_union_deferred_dropped(schema, discriminator) == schema

\* lines 539-545
_apply_discriminator_to_union_deferred(schema, discriminator) ==
    set_discriminator_in_metadata(schema, discriminator)

\* lines 529-545 ("" is None); any other exception than MissingDefinitionForUnionRef
\* leaves the function
_apply_discriminator_to_union(schema, discriminator, defs) ==
    IF discriminator = "" THEN schema
    ELSE LET applied == apply_discriminator(schema, discriminator,
                                           apply_discriminator_definitions(defs))
         IN IF applied = MissingDefinitionForUnionRef
            THEN _apply_discriminator_to_union_deferred(schema, discriminator)
            ELSE applied

RECURSIVE apply_discriminators_schema(_, _)
\* a union node with a pending discriminator gets it applied, with the definitions of
\* the graph at hand
apply_discriminators_schema(s, defs) ==
    IF s.type = "union" /\ "metadata" \in DOMAIN s
    THEN apply_discriminator(union_schema(s.choices), s.metadata, defs)
    ELSE IF s.type \in {"nullable", "function-after", "function-before", "function-wrap",
                        "default"}
    THEN LET inner == apply_discriminators_schema(s.schema, defs)
         IN IF inner = MissingDiscriminatorTag THEN inner ELSE [s EXCEPT !.schema = inner]
    ELSE s

\* _discriminated_union.apply_discriminators: every node of the graph is visited
apply_discriminators(schema) ==
    LET defs == [r \in {d.ref : d \in schema.definitions} |->
                   CHOOSE d \in schema.definitions : d.ref = r]
        fields(d) == IF "fields" \in DOMAIN d THEN d.fields ELSE <<>>
        walked(d) == IF "fields" \in DOMAIN d
                     THEN [d EXCEPT !.fields =
                             [k \in 1..Len(d.fields) |->
                                [d.fields[k] EXCEPT
                                   !.schema = apply_discriminators_schema(d.fields[k].schema,
                                                                          defs)]]]
                     ELSE d
    IN IF \E d \in schema.definitions : \E k \in 1..Len(fields(d)) :
             apply_discriminators_schema(fields(d)[k].schema, defs) = MissingDiscriminatorTag
       THEN MissingDiscriminatorTag
       ELSE [schema EXCEPT !.definitions = {walked(d) : d \in schema.definitions}]

\* inner_handler, lines 2052-2063
apply_annotations_start(i) ==
    /\ At(i, "_apply_annotations", "start")
    /\ Call(i, [Top(i) EXCEPT !.pc = "inner"],
            [NewFrame(i, "generate_schema", Top(i).obj) EXCEPT !.inner_handler = TRUE])
    /\ UNCHANGED <<env, SCHEMA_CACHE, seen, definitions, model_type_stack,
                   field_name_stack, ret, exc, req, log, expanded>>

\* lines 2065-2078
apply_annotations_wrap(i) ==
    /\ At(i, "_apply_annotations", "inner")
    /\ LET inner == _apply_discriminator_to_union(ret[i], Top(i).discriminator,
                                                  definitions[i]) IN
       IF inner = MissingDiscriminatorTag
       THEN /\ Raise(i, "MissingDiscriminatorTag")
            /\ UNCHANGED <<stack, ret, definitions>>
       ELSE /\ Return(i, _add_custom_serialization_from_json_encoders(
                             _config_wrapper(i).json_encoders, Top(i).obj,
                             _apply_annotations(inner, Top(i).annots, 1, definitions[i])))
            /\ definitions' =
                 [definitions EXCEPT
                    ![i] = _apply_annotations_definitions(inner, Top(i).annots, 1, @)]
            /\ UNCHANGED exc
    /\ UNCHANGED <<env, SCHEMA_CACHE, seen, model_type_stack,
                   field_name_stack, req, log, expanded>>

\* lines 1338-1345: the first member of Union[a, b]
union_choices(i) ==
    /\ At(i, "_union_schema", "start")
    /\ Top(i).obj.k = "union"
    /\ Call(i, [Top(i) EXCEPT !.pc = "first"],
            NewFrame(i, "generate_schema", ModelT(Top(i).obj.n)))
    /\ UNCHANGED <<env, SCHEMA_CACHE, seen, definitions, model_type_stack,
                   field_name_stack, ret, exc, req, log, expanded>>

\* line 1345: the second member
union_choices_next(i) ==
    /\ At(i, "_union_schema", "first")
    /\ Call(i, [Top(i) EXCEPT !.pc = "second", !.acc = << ret[i] >>],
            NewFrame(i, "generate_schema", ModelT(Top(i).obj.arg)))
    /\ UNCHANGED <<env, SCHEMA_CACHE, seen, definitions, model_type_stack,
                   field_name_stack, ret, exc, req, log, expanded>>

\* a union that forgets that None was one of its members
_union_schema_result_not_nullable(s, nullable) == s

\* lines 1347-1361, for a single choice
_union_schema_result(s, nullable) == IF nullable THEN nullable_schema(s) ELSE s

\* lines 1338-1345: the one non-None member
union_start(i) ==
    /\ At(i, "_union_schema", "start")
    /\ Top(i).obj.k # "union"
    /\ Call(i, [Top(i) EXCEPT !.pc = "choice"],
            NewFrame(i, "generate_schema", NonOptional(Top(i).obj)))
    /\ UNCHANGED <<env, SCHEMA_CACHE, seen, definitions, model_type_stack,
                   field_name_stack, ret, exc, req, log, expanded>>

\* a union that lists the member compiled last first
_union_schema_choices_latest_first(choices, choice) == << choice >> \o choices

\* line 1345: choices.append(self.generate_schema(arg))
_union_schema_choices(choices, choice) == Append(choices, choice)

\* lines 1347-1361: no choice carries a tag of its own
union_choices_return(i) ==
    /\ At(i, "_union_schema", "second")
    /\ Return(i, _union_schema_result(
                    union_schema(_union_schema_choices(Top(i).acc, ret[i])),
                    Top(i).obj.opt))
    /\ UNCHANGED <<env, SCHEMA_CACHE, seen, definitions, model_type_stack,
                   field_name_stack, exc, req, log, expanded>>

\* lines 1347-1361
union_return(i) ==
    /\ At(i, "_union_schema", "choice")
    /\ Return(i, _union_schema_result(ret[i], Top(i).obj.opt))
    /\ UNCHANGED <<env, SCHEMA_CACHE, seen, definitions, model_type_stack,
                   field_name_stack, exc, req, log, expanded>>

----------------------------------------------------------------------------
\* GenerateSchema._namedtuple_schema and GenerateSchema._type_alias_type_schema

\* get_cls_type_hints, eval_type: some annotation names a class the namespace lacks
undefined_annotation(fields) ==
    \E j \in 1..Len(fields) :
       fields[j].annotation.k = "forward" /\ fields[j].annotation.n \notin ns

\* lines 1504-1519: the class is pushed, the scope is entered, the hints are evaluated
namedtuple_schema_enter(i) ==
    /\ At(i, "_namedtuple_schema", "start")
    /\ LET namedtuple_cls == Top(i).obj
           namedtuple_ref == get_type_ref(namedtuple_cls) IN
       IF get_schema_or_ref_found(i, namedtuple_ref)
       THEN /\ Return(i, definition_reference_schema(namedtuple_ref))
            /\ seen' = [seen EXCEPT ![i] = get_schema_or_ref_found_exit(@, namedtuple_ref)]
            /\ UNCHANGED <<expanded, model_type_stack, exc>>
       ELSE /\ model_type_stack' =
                 [model_type_stack EXCEPT ![i] = _ModelTypeStack_push(@, namedtuple_cls)]
            /\ seen' = [seen EXCEPT ![i] = get_schema_or_ref_enter(@, namedtuple_ref)]
            /\ expanded' = [expanded EXCEPT ![i] = Append(@, namedtuple_ref)]
            /\ SetTop(i, [Top(i) EXCEPT !.pc = "fields", !.ref = namedtuple_ref,
                                        !.owned = TRUE, !.pushed = TRUE])
            /\ IF undefined_annotation(decl[namedtuple_cls.n].fields)
               THEN Raise(i, "PydanticUndefinedAnnotation")
               ELSE UNCHANGED exc
            /\ UNCHANGED ret
    /\ UNCHANGED <<env, SCHEMA_CACHE, definitions, field_name_stack, req, log>>

\* _generate_parameter_schema, lines 1553-1558
namedtuple_schema_field(i) ==
    /\ At(i, "_namedtuple_schema", "fields")
    /\ Top(i).idx <= Len(decl[Top(i).obj.n].fields)
    /\ LET field == decl[Top(i).obj.n].fields[Top(i).idx] IN
       /\ field_name_stack' =
            [field_name_stack EXCEPT ![i] = _FieldNameStack_push(@, field.name)]
       /\ Call(i, [Top(i) EXCEPT !.pc = "field_ret"],
               Frame("_apply_annotations", eval_type(field.annotation)))
    /\ UNCHANGED <<env, SCHEMA_CACHE, seen, definitions, model_type_stack,
                   ret, exc, req, log, expanded>>

\* _generate_parameter_schema, lines 1558-1575
namedtuple_schema_field_return(i) ==
    /\ At(i, "_namedtuple_schema", "field_ret")
    /\ field_name_stack' = [field_name_stack EXCEPT ![i] = _FieldNameStack_pop(@)]
    /\ SetTop(i, [Top(i) EXCEPT
                    !.pc = "fields", !.idx = @ + 1,
                    !.acc = Append(@, arguments_parameter(
                                         decl[Top(i).obj.n].fields[Top(i).idx].name, ret[i]))])
    /\ UNCHANGED <<env, SCHEMA_CACHE, seen, definitions, model_type_stack,
                   ret, exc, req, log, expanded>>

\* line 1541, then both context managers are left: the call schema carries the ref
\* and goes to the caller as it is
namedtuple_schema_finish(i) ==
    /\ At(i, "_namedtuple_schema", "fields")
    /\ Top(i).idx > Len(decl[Top(i).obj.n].fields)
    /\ seen' = [seen EXCEPT ![i] = get_schema_or_ref_exit(@, Top(i).ref, FALSE)]
    /\ model_type_stack' = [model_type_stack EXCEPT ![i] = _ModelTypeStack_pop(@)]
    /\ Return(i, call_schema(Top(i).acc, Top(i).obj.n, Top(i).ref))
    /\ UNCHANGED <<env, SCHEMA_CACHE, definitions, field_name_stack, exc, req, log, expanded>>

\* TypeAliasType.__value__: the one annotation the declaration of an alias holds
alias_value(obj) == decl[obj.n].fields[1].annotation

\* lines 1364-1377
type_alias_type_schema_enter(i) ==
    /\ At(i, "_type_alias_type_schema", "start")
    /\ LET ref == get_type_ref(Top(i).obj) IN
       IF get_schema_or_ref_found(i, ref)
       THEN /\ Return(i, definition_reference_schema(ref))
            /\ seen' = [seen EXCEPT ![i] = get_schema_or_ref_found_exit(@, ref)]
            /\ UNCHANGED <<expanded, exc>>
       ELSE /\ seen' = [seen EXCEPT ![i] = get_schema_or_ref_enter(@, ref)]
            /\ expanded' = [expanded EXCEPT ![i] = Append(@, ref)]
            /\ IF undefined_annotation(decl[Top(i).obj.n].fields)
               THEN /\ Raise(i, "PydanticUndefinedAnnotation")
                    /\ SetTop(i, [Top(i) EXCEPT !.pc = "value", !.ref = ref, !.owned = TRUE])
               ELSE /\ Call(i, [Top(i) EXCEPT !.pc = "value", !.ref = ref, !.owned = TRUE],
                            Frame("generate_schema", eval_type(alias_value(Top(i).obj))))
                    /\ UNCHANGED exc
            /\ UNCHANGED ret
    /\ UNCHANGED <<env, SCHEMA_CACHE, definitions, model_type_stack, field_name_stack,
                   req, log>>

\* lines 1378-1381
type_alias_type_schema_return(i) ==
    /\ At(i, "_type_alias_type_schema", "value")
    /\ LET schema == Put(ret[i], "ref", Top(i).ref) IN
       /\ definitions' = [definitions EXCEPT ![i] = Put(@, Top(i).ref, schema)]
       /\ seen' = [seen EXCEPT ![i] = get_schema_or_ref_exit(@, Top(i).ref, FALSE)]
       /\ Return(i, definition_reference_schema(Top(i).ref))
    /\ UNCHANGED <<env, SCHEMA_CACHE, model_type_stack, field_name_stack, exc, req, log,
                   expanded>>

----------------------------------------------------------------------------
\* An exception leaves one frame at a time.  The only cleanup on the way is the finally
\* clause of get_schema_or_ref (lines 2484-2487); the push context managers of the two
\* stacks have none (lines 2508-2510, 2527-2529).
unwind(i) ==
    /\ Running(i)
    /\ exc[i] # "none"
    /\ stack' = [stack EXCEPT ![i] = SubSeq(@, 1, Len(@) - 1)]
    /\ seen' = [seen EXCEPT ![i] =
                  IF Top(i).owned THEN get_schema_or_ref_exit(@, Top(i).ref, TRUE) ELSE @]
    /\ UNCHANGED <<env, SCHEMA_CACHE, definitions, model_type_stack,
                   field_name_stack, ret, exc, req, log, expanded>>

----------------------------------------------------------------------------
\* GenerateSchema.clean_schema

NoReq == [obj |-> NoType, definitions |-> <<>>, fresh |-> FALSE, alone |-> FALSE,
          overlapped |-> FALSE, process |-> 0]
\* no call of generate_schema is in progress on the instance
Idle(i) == ~Running(i) /\ req[i] = NoReq

RECURSIVE schema_refs(_)
\* the refs that the definition-reference nodes of a schema name
schema_refs(s) ==
    CASE s.type = "definition-ref" -> {s.schema_ref}
      [] s.type \in {"nullable", "function-after"} -> schema_refs(s.schema)
      [] s.type \in {"union", "tagged-union"} ->
           UNION {schema_refs(s.choices[j]) : j \in 1..Len(s.choices)}
      [] s.type \in {"model", "dataclass", "typed-dict"} ->
           UNION {schema_refs(s.fields[j].schema) : j \in 1..Len(s.fields)}
      [] s.type = "definitions" ->
           schema_refs(s.schema) \cup UNION {schema_refs(d) : d \in s.definitions}
      [] OTHER -> {}

\* _core_utils.collect_invalid_schemas: some node names an unresolved or in-progress
\* marker, that is a ref for which the graph has no definition
collect_invalid_schemas(schema) ==
    ~(schema_refs(schema) \subseteq {d.ref : d \in schema.definitions})

\* collect_definitions, lines 559-561: the entry a root with a ref adds
collect_definitions_definitions(d, schema) ==
    IF get_ref(schema) # NoRef THEN Put(d, get_ref(schema), schema) ELSE d

\* collect_definitions, lines 562-567
collect_definitions(d, schema) ==
    definitions_schema(
        IF "ref" \in DOMAIN schema THEN definition_reference_schema(schema.ref) ELSE schema,
        {collect_definitions_definitions(d, schema)[r] :
            r \in DOMAIN collect_definitions_definitions(d, schema)})

CollectedInvalid == [type |-> "CollectedInvalid"]

\* a clean_schema that hands the graph back without the check of line 553
clean_schema_result_unchecked(schema) == schema

\* lines 550-557; simplify_schema_references and validate_core_schema leave a graph
\* of these nodes as it is
clean_schema_result(schema) ==
    IF collect_invalid_schemas(schema) THEN CollectedInvalid ELSE apply_discriminators(schema)

\* the caller of generate_schema hands its result to clean_schema
clean_schema(i) ==
    /\ ~Running(i)
    /\ req[i] = NoReq
    /\ log[i] # <<>>
    /\ LET last == log[i][Len(log[i])] IN
       /\ last.status = "none"
       /\ last.cleaned = None
       /\ definitions' = [definitions EXCEPT
                            ![i] = collect_definitions_definitions(@, last.schema)]
       /\ log' = [log EXCEPT ![i][Len(log[i])].cleaned =
                     clean_schema_result(collect_definitions(definitions[i], last.schema))]
    /\ UNCHANGED <<env, SCHEMA_CACHE, seen, model_type_stack, field_name_stack,
                   stack, ret, exc, req, expanded>>

\* the class construction that asked for the schema of a dataclass stores the cleaned
\* schema as the class's __pydantic_core_schema__
set_core_schema(i) ==
    /\ ~Running(i)
    /\ req[i] = NoReq
    /\ log[i] # <<>>
    /\ LET last == log[i][Len(log[i])] IN
       /\ last.obj.k = "dataclass" /\ last.obj.arg = "" /\ ~last.obj.opt
       /\ last.cleaned.type = "definitions"
       /\ decl[last.obj.n].core_schema = None
       /\ decl' = [decl EXCEPT ![last.obj.n].core_schema = last.cleaned]
    /\ UNCHANGED <<ns, config, process, SCHEMA_CACHE, seen, definitions, model_type_stack,
                   field_name_stack, stack, ret, exc, req, log, expanded>>

----------------------------------------------------------------------------
\* The callers of a GenerateSchema instance

Records == {ModelT("A"), BoxT("int"), BoxT("str")}

Sequential(i) == \A j \in Insts \ {i} : Idle(j)

\* the instance is as __init__ left it (lines 336-348)
IsFresh(i) ==
    /\ seen[i] = {}
    /\ definitions[i] = <<>>
    /\ model_type_stack[i] = <<>>
    /\ field_name_stack[i] = <<>>

\* a caller hands a type to GenerateSchema.generate_schema (line 581)
StartCompile(i, tp) ==
    /\ Idle(i)
    /\ Len(log[i]) < MaxRequests
    /\ stack' = [stack EXCEPT ![i] = << NewFrame(i, "generate_schema", tp) >>]
    /\ req' = [j \in Insts |->
                 IF j = i
                 THEN [obj |-> tp, definitions |-> definitions[i], fresh |-> IsFresh(i),
                       alone |-> SCHEMA_CACHE = <<>> /\ IsFresh(i),
                       overlapped |-> ~Sequential(i), process |-> process]
                 ELSE IF req[j] # NoReq THEN [req[j] EXCEPT !.overlapped = TRUE]
                 ELSE req[j]]
    /\ expanded' = [expanded EXCEPT ![i] = <<>>]
    /\ UNCHANGED <<env, SCHEMA_CACHE, seen, definitions, model_type_stack,
                   field_name_stack, ret, exc, log>>

\* generate_schema has returned to, or raised into, its caller
Complete(i) ==
    /\ ~Running(i)
    /\ req[i] # NoReq
    /\ log' = [log EXCEPT ![i] = Append(@,
                 [obj |-> req[i].obj, status |-> exc[i],
                  schema |-> IF exc[i] = "none" THEN ret[i] ELSE None,
                  before |-> req[i].definitions, after |-> definitions[i],
                  expanded |-> expanded[i], cleaned |-> None,
                  fresh |-> req[i].fresh, alone |-> req[i].alone,
                  overlapped |-> req[i].overlapped, process |-> req[i].process])]
    /\ req' = [req EXCEPT ![i] = NoReq]
    /\ exc' = [exc EXCEPT ![i] = "none"]
    /\ ret' = [ret EXCEPT ![i] = None]
    /\ UNCHANGED <<env, SCHEMA_CACHE, seen, definitions, model_type_stack,
                   field_name_stack, stack, expanded>>

\* the instances of a started program, all as __init__ leaves them (lines 336-348),
\* and the module-level cache as the import leaves it (lines 320-321)
Started ==
    /\ SCHEMA_CACHE = <<>>
    /\ seen = [i \in Insts |-> {}]
    /\ definitions = [i \in Insts |-> <<>>]
    /\ model_type_stack = [i \in Insts |-> <<>>]
    /\ field_name_stack = [i \in Insts |-> <<>>]
    /\ stack = [i \in Insts |-> <<>>]
    /\ ret = [i \in Insts |-> None]
    /\ exc = [i \in Insts |-> "none"]
    /\ req = [i \in Insts |-> NoReq]
    /\ expanded = [i \in Insts |-> <<>>]

\* the program ends and is started again on the same declarations: the module is
\* imported anew (lines 320-321) and every instance is a new one (lines 336-348)
Restart ==
    /\ \A i \in Insts : Idle(i)
    /\ \E i \in Insts : log[i] # <<>>
    /\ process < MaxProcesses
    /\ process' = process + 1
    /\ SCHEMA_CACHE' = <<>>
    /\ seen' = [i \in Insts |-> {}]
    /\ definitions' = [i \in Insts |-> <<>>]
    /\ model_type_stack' = [i \in Insts |-> <<>>]
    /\ field_name_stack' = [i \in Insts |-> <<>>]
    /\ stack' = [i \in Insts |-> <<>>]
    /\ ret' = [i \in Insts |-> None]
    /\ exc' = [i \in Insts |-> "none"]
    /\ req' = [i \in Insts |-> NoReq]
    /\ expanded' = [i \in Insts |-> <<>>]
    /\ UNCHANGED <<decl, ns, config, log>>

\* one step of the compilation that instance i is running
Step(i) ==
    \/ generate_schema_start(i) \/ generate_schema_inner(i) \/ generate_schema_return(i)
    \/ from_property_enter(i) \/ from_property_exit(i) \/ from_property_hook(i)
    \/ from_property_store(i)
    \/ inner_model(i) \/ inner_model_return(i) \/ match_type(i) \/ match_type_return(i)
    \/ model_schema_enter(i) \/ model_schema_field(i) \/ model_schema_field_return(i)
    \/ model_schema_finish(i)
    \/ dataclass_schema_enter(i) \/ dataclass_schema_field(i)
    \/ dataclass_schema_field_return(i) \/ dataclass_schema_finish(i)
    \/ common_field_start(i) \/ common_field_cache(i) \/ common_field_store(i)
    \/ common_field_finish(i)
    \/ apply_annotations_start(i) \/ apply_annotations_wrap(i)
    \/ union_start(i) \/ union_return(i)
    \/ unwind(i)

\* one step of the builders of Annotated, list and dict types
StepDecorated(i) ==
    \/ inner_annotated(i) \/ annotated_schema_start(i) \/ annotated_schema_return(i)
    \/ list_schema_start(i) \/ list_schema_return(i)
    \/ dict_schema_start(i) \/ dict_schema_values(i) \/ dict_schema_return(i)
    \/ tuple_schema_start(i) \/ tuple_schema_return(i)

\* one step of the builders of a union of models and of a field with a discriminator
StepUnion(i) ==
    \/ union_choices(i) \/ union_choices_next(i) \/ union_choices_return(i)
    \/ common_field_discriminated(i)

\* one step of a typed dict's expansion
StepTypedDict(i) ==
    \/ typed_dict_schema_enter(i) \/ typed_dict_schema_field(i)
    \/ typed_dict_schema_field_return(i) \/ typed_dict_schema_finish(i)

\* model_serializers: the functions of the class's @model_serializers, in declaration
\* order; computed_fields: the names of its @computed_fields
DeclFull(fields, cfg, decs) ==
    [fields |-> fields, config |-> cfg, core_schema |-> None, field_validators |-> decs,
     model_serializers |-> <<>>, computed_fields |-> {}, model_validators |-> <<>>]
WithModelValidators(d, validators) == [d EXCEPT !.model_validators = validators]
WithModelSerializers(d, serializers) == [d EXCEPT !.model_serializers = serializers]
WithComputedFields(d, names) == [d EXCEPT !.computed_fields = names]
DeclWith(fields, cfg) == DeclFull(fields, cfg, <<>>)
Decl(fields) == DeclWith(fields, Config(FALSE))
ModelFieldTypes == {IntT, ModelT("A"), Optional(ModelT("A")), BoxT("int"), ForwardT("Missing")}
BoxFieldTypes == {TypeVarT, ModelT("A"), Optional(BoxT("T"))}

\* the first start of the program
Fresh ==
    /\ Started
    /\ process = 1
    /\ config = [i \in Insts |-> Config(FALSE)]
    /\ log = [i \in Insts |-> <<>>]

Init ==
    /\ \E fa \in FieldLists(ModelFieldTypes, {FALSE}), fb \in FieldLists(BoxFieldTypes, {FALSE}) :
          decl = [n \in {"A", "Box"} |-> IF n = "A" THEN Decl(fa) ELSE Decl(fb)]
    /\ ns = {"A"}
    /\ Fresh

\* one instance serves a sequence of requests
Next ==
    \/ Step(1)
    \/ \E tp \in Records : StartCompile(1, tp)
    \/ Complete(1)

Spec == Init /\ [][Next]_vars

\* a running compilation always takes its next step
FairSpec == Spec /\ WF_vars(Step(1))

----------------------------------------------------------------------------
\* Several instances in one program.  The first run of the program compiles one type
\* on one instance; the program is then started again and its instances compile one
\* type each, in any interleaving of their steps.

SharedRecords == {ModelT("A"), ModelT("B")}

InitShared ==
    /\ \E fa \in FieldListsUpTo(MaxSharedFields, {IntT}, BOOLEAN),
          fb \in FieldListsUpTo(MaxSharedFields,
                                {IntT, Optional(BoxT("int")), ForwardT("Missing")}, {FALSE}) :
          decl = [n \in {"A", "B", "Box"} |->
                    IF n = "A" THEN Decl(fa)
                    ELSE IF n = "B" THEN Decl(fb)
                    ELSE Decl(<< FieldInfo("f1", TypeVarT, FALSE) >>)]
    /\ ns = {"A", "B"}
    /\ Fresh

NextShared ==
    \/ \E i \in Insts : Step(i)
    \/ \E tp \in SharedRecords :
          process = 1 /\ (\A j \in Insts : log[j] = <<>>) /\ StartCompile(1, tp)
    \/ \E i \in Insts, tp \in SharedRecords :
          process > 1 /\ IsFresh(i) /\ StartCompile(i, tp)
    \/ \E i \in Insts : Complete(i)
    \/ Restart

SharedSpec == InitShared /\ [][NextShared]_vars

----------------------------------------------------------------------------
\* Class construction.  Instance 1 is the one the construction of dataclass P makes:
\* it compiles P, cleans the result and stores it on the class.  Instance 2 is the
\* one the construction of model A makes.

InitPlug ==
    /\ \E fa \in FieldLists({TypedDictT("TD"), DataclassT("P"), Optional(IntT)}, {FALSE}),
          fp \in FieldLists({TypedDictT("TD"), PydanticRecursiveRef("G"),
                             ForwardT("Missing")}, {FALSE}),
          ft \in FieldListsUpTo(MaxSharedFields, {IntT}, {FALSE}) :
          decl = [n \in {"A", "P", "TD"} |->
                    IF n = "A" THEN DeclWith(fa, Config(TRUE))
                    ELSE IF n = "P" THEN DeclWith(fp, Config(FALSE))
                    ELSE DeclWith(ft, NoConfig)]
    /\ ns = {"A"}
    /\ Fresh

NextPlug ==
    \/ \E i \in Insts : Step(i)
    \/ \E i \in Insts : StepTypedDict(i)
    \/ Sequential(1) /\ StartCompile(1, DataclassT("P"))
    \/ \E i \in Insts \ {1} : Sequential(i) /\ StartCompile(i, ModelT("A"))
    \/ \E i \in Insts : Complete(i)
    \/ \E i \in Insts : clean_schema(i)
    \/ set_core_schema(1)

PlugSpec == InitPlug /\ [][NextPlug]_vars

----------------------------------------------------------------------------
\* Fields with metadata, validators, defaults and serializers.  One instance compiles
\* the model A, whose fields are drawn from FieldShapes, and decorated types.

Va == Validator("after", <<"", "a">>)
Vb == Validator("wrap", <<"", "b">>)
Gt == Known("Gt")
Ps == PlainSerializer("p")
Ux == Unknown("X")

FieldShapes ==
    { FieldInfoWith("", IntT, FALSE, <<>>, FALSE, "", <<>>),
      FieldInfoWith("", IntT, TRUE, <<>>, FALSE, "", <<>>),
      FieldInfoWith("", IntT, FALSE, <<Va, Vb>>, FALSE, "", <<>>),
      FieldInfoWith("", IntT, FALSE, <<Vb, Va>>, FALSE, "", <<>>),
      FieldInfoWith("", IntT, TRUE, <<Va>>, TRUE, "field", <<>>),
      FieldInfoWith("", IntT, FALSE, <<>>, FALSE, "each_item", <<>>),
      FieldInfoWith("", ListT("int"), FALSE, <<>>, FALSE, "each_item", <<>>),
      FieldInfoWith("", ListT("int"), FALSE, <<>>, FALSE, "", <<>>),
      FieldInfoWith("", ListT("int"), TRUE, <<>>, FALSE, "", <<>>),
      FieldInfoWith("", Optional(ListT("int")), FALSE, <<>>, TRUE, "each_item", <<>>),
      FieldInfoWith("", DictT("int"), FALSE, <<>>, FALSE, "each_item", <<>>),
      FieldInfoWith("", TupleT("int", TRUE), FALSE, <<>>, FALSE, "each_item", <<>>),
      FieldInfoWith("", TupleT("int", FALSE), FALSE, <<>>, FALSE, "each_item", <<>>),
      FieldInfoWith("", ModelT("M"), FALSE, <<Gt>>, FALSE, "", <<"s">>),
      FieldInfoWith("", ModelT("M"), FALSE, <<Gt>>, FALSE, "", <<>>),
      FieldInfoWith("", BoxT("int"), FALSE, <<>>, FALSE, "", <<>>),
      FieldInfoWith("", IntT, FALSE, <<Ps>>, FALSE, "", <<"s1", "s2">>),
      FieldInfoWith("", IntT, FALSE, <<Ux>>, FALSE, "", <<>>),
      FieldInfoWith("", IntT, FALSE, <<NoneItem, Gt>>, FALSE, "", <<>>),
      FieldInfoWith("", ModelT("M"), FALSE, <<Ux>>, FALSE, "", <<>>) }

\* every field list of at most m fields of the given shapes, named f1, f2, ...
ShapedFieldLists(m, shapes) ==
    UNION { { [j \in 1..n |-> [fs[j] EXCEPT !.name = FieldNames[j]]] :
                fs \in [1..n -> shapes] } : n \in 0..m }

\* the field validators of A that do not name one field
WildcardValidators == { <<>>, << Decorator(<<"A", "w">>, "before", {"*"}) >> }

DecoratedTypes == { AnnotatedT(IntT, <<Va, DefaultItem>>), AnnotatedT(IntT, <<DefaultItem, Va>>),
                    AnnotatedT(IntT, <<Va, Vb>>) }

InitFields ==
    /\ \E fa \in ShapedFieldLists(MaxFields, FieldShapes), w \in WildcardValidators :
          decl = [n \in {"A", "M", "Box"} |->
                    IF n = "A" THEN DeclFull(fa, Config(FALSE), w)
                    ELSE IF n = "M" THEN WithModelSerializers(Decl(<<>>), <<"m1", "m2">>)
                    ELSE Decl(<< FieldInfo("f1", TypeVarT, FALSE) >>)]
    /\ ns = {"A", "M"}
    /\ Fresh

NextFields ==
    \/ Step(1)
    \/ StepDecorated(1)
    \/ \E tp \in {ModelT("A")} \cup DecoratedTypes : StartCompile(1, tp)
    \/ Complete(1)

FieldsSpec == InitFields /\ [][NextFields]_vars

----------------------------------------------------------------------------
\* Discriminated unions.  One instance compiles the model A, which has fields of type
\* Union[X, Y] with and without a discriminator; the caller cleans what it gets.

UnionShapes ==
    { Discriminated(FieldInfo("", UnionT("X", "Y"), FALSE), "f1"),
      FieldInfo("", UnionT("X", "Y"), FALSE),
      FieldInfo("", Optional(UnionT("X", "Y")), FALSE),
      FieldInfo("", Optional(BoxT("int")), FALSE),
      FieldInfo("", IntT, FALSE) }

InitUnion ==
    /\ \E fa \in ShapedFieldLists(MaxFields, UnionShapes),
          fx \in FieldListsUpTo(MaxMemberFields,
                                {IntT, ForwardT("Missing"), ModelT("A")}, {FALSE}),
          fy \in FieldListsUpTo(MaxMemberFields, {IntT, ModelT("A")}, {FALSE}) :
          decl = [n \in {"A", "X", "Y", "Box"} |->
                    IF n = "A" THEN Decl(fa)
                    ELSE IF n = "X" THEN Decl(fx)
                    ELSE IF n = "Y" THEN Decl(fy)
                    ELSE Decl(<< FieldInfo("f1", TypeVarT, FALSE) >>)]
    /\ ns = {"A", "X", "Y"}
    /\ Fresh

NextUnion ==
    \/ Step(1)
    \/ StepUnion(1)
    \/ \E tp \in {ModelT("A"), ModelT("X")} : StartCompile(1, tp)
    \/ Complete(1)
    \/ clean_schema(1)

UnionSpec == InitUnion /\ [][NextUnion]_vars

----------------------------------------------------------------------------
\* Properties

\* the frame of a generate_schema call is being left, by return or by exception
Leaves(i) ==
    /\ Running(i)
    /\ Top(i).fn = "generate_schema"
    /\ Len(stack'[i]) < Len(stack[i])

IsRecord(tp) == tp.k \in {"model", "dataclass"} /\ ~tp.opt
RecordRefs == {get_type_ref(r) : r \in Records}
Expanding(f) == f.fn \in {"_model_schema", "_dataclass_schema"} /\ f.pc \in {"fields", "field_ret"}
NoDuplicates(q) == \A j, k \in 1..Len(q) : q[j] = q[k] => j = k

\* C1: when a call of generate_schema returns or raises, defs.seen is what it was when
\* the call began, and it is empty whenever no compilation is running.
C1_SeenRestored ==
    [][\A i \in Insts :
         /\ Leaves(i) => seen'[i] = Top(i).seen0
         /\ ~Running(i)' => seen'[i] = {}]_vars

C1_Witness ==
    \E k \in 1..Len(log[1]) :
        /\ log[1][k].status # "none"
        /\ log[1][k].expanded # <<>>
        /\ seen[1] = {}

C2_Bounded ==
    \A i \in Insts :
        /\ NoDuplicates(expanded[i])
        /\ DOMAIN definitions[i] \subseteq RecordRefs
        /\ Cardinality(DOMAIN definitions[i]) <= Cardinality(Records)

\* C2: a compilation of record types that refer to each other in cycles terminates, no
\* record's fields are expanded twice in one compilation, and there are at most as many
\* definitions as there are record types.
C2_Terminates ==
    /\ []C2_Bounded
    /\ \A i \in Insts : Running(i) ~> ~Running(i)

C2_Witness ==
    /\ \E j \in 1..Len(decl["A"].fields) : decl["A"].fields[j].annotation = ModelT("A")
    /\ \E j \in 1..Len(decl["Box"].fields) : decl["Box"].fields[j].annotation = ModelT("A")
    /\ \E j \in 1..Len(decl["A"].fields) : decl["A"].fields[j].annotation = BoxT("int")
    /\ \E k \in 1..Len(log[1]) :
          /\ log[1][k].status = "none"
          /\ Len(log[1][k].expanded) = 2
          /\ Cardinality(DOMAIN log[1][k].after) = 2

C3_InProgress ==
    \A i \in Insts : \A j \in 1..Len(stack[i]) :
        Expanding(stack[i][j]) =>
            /\ stack[i][j].ref \in seen[i]
            /\ \A k \in 1..Len(stack[i]) :
                 Expanding(stack[i][k]) /\ stack[i][k].ref = stack[i][j].ref => k = j

C3_Reference ==
    \A i \in Insts :
        (/\ Leaves(i)
         /\ exc[i] = "none"
         /\ IsRecord(Top(i).obj)
         /\ get_type_ref(Top(i).obj) \in Top(i).seen0 \cup Top(i).defs0)
        => /\ ret'[i] = definition_reference_schema(get_type_ref(Top(i).obj))
           /\ expanded'[i] = expanded[i]

\* C3: a record's ref is in defs.seen for as long as its fields are being expanded, no
\* ref is being expanded at two levels of the recursion, and a field whose record type
\* is in progress or completed gets a definition-reference node without an expansion.
C3_NoReentry == []C3_InProgress /\ [][C3_Reference]_vars

C3_Witness ==
    /\ At(1, "generate_schema", "from_property")
    /\ IsRecord(Top(1).obj)
    /\ get_type_ref(Top(1).obj) \in Top(1).seen0
    /\ ret[1] = definition_reference_schema(get_type_ref(Top(1).obj))
    /\ \E j \in 1..Len(stack[1]) :
          Expanding(stack[1][j]) /\ stack[1][j].ref = get_type_ref(Top(1).obj)

\* C4: when a call of generate_schema returns or raises, model_type_stack and
\* field_name_stack have the contents they had when the call began.
C4_StacksRestored ==
    [][\A i \in Insts :
         Leaves(i) => /\ model_type_stack'[i] = Top(i).mts0
                      /\ field_name_stack'[i] = Top(i).fns0]_vars

\* C10: a second compilation of a record type on the same instance returns the
\* definition-reference of the first, expands nothing and leaves defs.definitions alone.
C10_SecondCompile ==
    \A i \in Insts : \A k, l \in 1..Len(log[i]) :
        (k < l /\ log[i][k].obj = log[i][l].obj /\ log[i][k].status = "none")
        => /\ log[i][l].status = "none"
           /\ log[i][l].schema = log[i][k].schema
           /\ log[i][l].schema = definition_reference_schema(get_type_ref(log[i][l].obj))
           /\ log[i][l].expanded = <<>>
           /\ log[i][l].after = log[i][l].before

C10_Witness ==
    /\ Len(log[1]) = 2
    /\ log[1][1].obj = log[1][2].obj
    /\ log[1][1].status = "none"
    /\ log[1][1].expanded # <<>>
    /\ log[1][2].schema = log[1][1].schema

\* the content of a definition: its fields without the names of the schema objects
Content(d) ==
    IF "fields" \in DOMAIN d
    THEN [d EXCEPT !.fields = [j \in 1..Len(d.fields) |->
                                 [name |-> d.fields[j].name, schema |-> d.fields[j].schema]]]
    ELSE d
Contents(defs) == [r \in DOMAIN defs |-> Content(defs[r])]

\* the outcomes two finished requests handed to their callers are the same
SameOutcome(e, r) ==
    /\ e.status = r.status
    /\ e.schema = r.schema
    /\ Contents(e.after) = Contents(r.after)

\* the request ran on a new instance in a newly started program, with nothing else running
RanAlone(r) == r.alone /\ ~r.overlapped

\* C5: a compilation on a new instance, begun after the earlier ones have ended, gives
\* what the same type gives on a new instance of a newly started program.
C5_FreshInstance ==
    \A i, j \in Insts : \A k \in 1..Len(log[i]), l \in 1..Len(log[j]) :
        (/\ RanAlone(log[j][l])
         /\ log[i][k].fresh /\ ~log[i][k].overlapped
         /\ log[i][k].obj = log[j][l].obj)
        => SameOutcome(log[i][k], log[j][l])

\* C6: a compilation on its own instance that ran while another instance was compiling
\* gives what the same type gives when it is compiled alone.
C6_Interleaved ==
    \A i, j \in Insts : \A k \in 1..Len(log[i]), l \in 1..Len(log[j]) :
        (/\ RanAlone(log[j][l])
         /\ log[i][k].fresh /\ log[i][k].overlapped
         /\ log[i][k].obj = log[j][l].obj)
        => SameOutcome(log[i][k], log[j][l])

\* C7: the specializations of Box have refs of their own, their type-variable fields
\* have the schema of their own argument, and no field schema a specialization gets
\* is the node that was built for another specialization of Box.
C7_GenericIsolation ==
    \A i \in Insts :
        /\ \A x \in {"int", "str"} :
             get_type_ref(BoxT(x)) \in DOMAIN definitions[i] =>
                LET d == definitions[i][get_type_ref(BoxT(x))] IN
                /\ d.ref = get_type_ref(BoxT(x))
                /\ \A j \in 1..Len(d.fields) :
                     decl["Box"].fields[j].annotation = TypeVarT =>
                        d.fields[j].schema = (IF x = "int" THEN int_schema ELSE str_schema)
        /\ (At(i, "_dataclass_schema", "field_ret") /\ Top(i).obj.arg # "") =>
              ~(/\ ret[i].node[2][2] = Top(i).obj.n
                /\ ret[i].node[2][3] # Top(i).obj.arg)

\* C8: while a compilation runs, an entry of defs.definitions is never replaced by a
\* node with different content.
C8_OneCanonicalNode ==
    [][\A i \in Insts : Running(i) =>
         \A r \in DOMAIN definitions[i] :
            /\ r \in DOMAIN definitions'[i]
            /\ Content(definitions'[i][r]) = Content(definitions[i][r])]_vars

\* every definition-reference of the graph names one of the graph's definitions
Closed(g) == schema_refs(g) \subseteq {d.ref : d \in g.definitions}

EntersKnown(i) ==
    /\ Running(i) /\ exc[i] = "none"
    /\ Top(i).pc = "start"
    /\ Top(i).fn \in {"_generate_schema_from_property", "_model_schema",
                      "_dataclass_schema", "_typed_dict_schema"}
    /\ get_type_ref(Top(i).obj) \in seen[i] \cup DOMAIN definitions[i]

\* C11: entering get_schema_or_ref for a ref that is in defs.seen or in defs.definitions
\* makes the caller return the definition-reference at once, with nothing expanded, and
\* leaves defs.seen and defs.definitions as they were: the marker of the enclosing
\* scope stays.
C11_KnownRef ==
    [][\A i \in Insts : EntersKnown(i) =>
         /\ ret'[i] = definition_reference_schema(get_type_ref(Top(i).obj))
         /\ stack'[i] = SubSeq(stack[i], 1, Len(stack[i]) - 1)
         /\ expanded'[i] = expanded[i]
         /\ seen'[i] = seen[i]
         /\ definitions'[i] = definitions[i]]_vars

C11_Witness ==
    /\ At(1, "generate_schema", "from_property")
    /\ Len(stack[1]) > 1
    /\ ret[1] = definition_reference_schema(get_type_ref(Top(1).obj))
    /\ get_type_ref(Top(1).obj) \in seen[1]
    /\ seen[1] = Top(1).seen0
    /\ DOMAIN definitions[1] = Top(1).defs0
    /\ DOMAIN definitions[1] # {}

\* the declaration of A is that of Node { value: int, next: Optional<Node> }
IsNode == decl["A"].fields = << FieldInfo("f1", IntT, FALSE),
                               FieldInfo("f2", Optional(ModelT("A")), FALSE) >>

\* C12: compiling Node { value: int, next: Optional<Node> } on a new instance returns
\* the reference to Node's ref and leaves one definition, Node's, whose second field
\* is a nullable node around a reference to that same ref.
C12_SelfReference ==
    \A i \in Insts : \A k \in 1..Len(log[i]) :
        LET e == log[i][k]
            ref == get_type_ref(ModelT("A")) IN
        (IsNode /\ e.obj = ModelT("A") /\ e.before = <<>>) =>
            /\ e.status = "none"
            /\ e.schema = definition_reference_schema(ref)
            /\ DOMAIN e.after = {ref}
            /\ e.after[ref].type = "model"
            /\ e.after[ref].ref = ref
            /\ Len(e.after[ref].fields) = 2
            /\ e.after[ref].fields[1].name = "f1"
            /\ e.after[ref].fields[1].schema = int_schema
            /\ e.after[ref].fields[2].name = "f2"
            /\ e.after[ref].fields[2].schema =
                  nullable_schema(definition_reference_schema(ref))
            /\ e.expanded = << ref >>

C12_Witness ==
    /\ IsNode
    /\ Len(log[1]) = 1
    /\ log[1][1].obj = ModelT("A")
    /\ log[1][1].status = "none"
    /\ log[1][1].after[get_type_ref(ModelT("A"))].fields[2].schema.type = "nullable"

\* the item wraps the schema with the validator node of its mode
Wraps(item, outer, inner) ==
    /\ item.kind = "validator"
    /\ outer.type = (CASE item.mode = "after" -> "function-after"
                       [] item.mode = "before" -> "function-before"
                       [] item.mode = "wrap" -> "function-wrap")
    /\ outer.function = item.func
    /\ outer.schema = inner

\* C13: for a metadata list [A, B] of two wrapping items _apply_annotations returns
\* B(A(schema of the base type)): B's node outermost, A's node inside it, the base
\* schema innermost; for two different items that is not A(B(schema)).
C13_MetadataOrder ==
    [][\A i \in Insts :
         (/\ At(i, "_apply_annotations", "inner")
          /\ Len(Top(i).annots) = 2
          /\ \A k \in 1..2 : Top(i).annots[k].kind = "validator")
         => LET A == Top(i).annots[1]
                B == Top(i).annots[2] IN
            /\ Wraps(B, ret'[i], ret'[i].schema)
            /\ Wraps(A, ret'[i].schema, ret[i])
            /\ A # B => ~(Wraps(A, ret'[i], ret'[i].schema) /\ Wraps(B, ret'[i].schema, ret[i]))
       ]_vars

C13_Witness ==
    \E r \in DOMAIN definitions[1] :
        /\ definitions[1][r].type = "model"
        /\ Len(definitions[1][r].fields) = 2
        /\ definitions[1][r].fields[1].schema =
              wrap_validator_function(Vb.func, after_validator_function(Va.func, int_schema))
        /\ definitions[1][r].fields[2].schema =
              after_validator_function(Va.func, wrap_validator_function(Vb.func, int_schema))

ValidatorNodes == {"function-after", "function-before", "function-wrap"}

RECURSIVE Wrappers(_)
\* the types of the wrapper nodes of a schema, outermost first
Wrappers(s) ==
    IF s.type \in ValidatorNodes \cup {"default"}
    THEN << s.type >> \o Wrappers(s.schema)
    ELSE <<>>

\* the default node is the outermost node and every validator node is inside it
DefaultOutermost(s) ==
    /\ s.type = "default"
    /\ \A j, k \in 1..Len(Wrappers(s)) :
          Wrappers(s)[j] \in ValidatorNodes /\ Wrappers(s)[k] = "default" => k < j

\* C14: the schema _common_field_schema returns for a field with a default, and the
\* schema _annotated_schema returns for a decorated type with a default-carrying item
\* at any position of its metadata, has the with-default node outermost and every
\* validator node, one for each validator item, inside it.
C14_DefaultOutermost ==
    [][\A i \in Insts :
         /\ (/\ At(i, "_common_field_schema", "post")
             /\ Top(i).field.default
             /\ exc'[i] = "none")
            => /\ DefaultOutermost(ret'[i].schema)
               /\ Top(i).field.v1 = "field" => ret'[i].schema.schema.type \in ValidatorNodes
         /\ (/\ At(i, "_annotated_schema", "wrap")
             /\ \E k \in 1..Len(Top(i).obj.meta) : Top(i).obj.meta[k].kind = "default")
            => /\ DefaultOutermost(ret'[i])
               /\ Cardinality({k \in 1..Len(Wrappers(ret'[i])) :
                                  Wrappers(ret'[i])[k] \in ValidatorNodes})
                  = Cardinality({k \in 1..Len(Top(i).obj.meta) :
                                    Top(i).obj.meta[k].kind = "validator"})
       ]_vars

C14_Witness ==
    /\ \E j \in 1..Len(log[1]) :
          /\ log[1][j].obj = AnnotatedT(IntT, <<DefaultItem, Va>>)
          /\ log[1][j].schema =
                with_default_schema(after_validator_function(Va.func, int_schema))
    /\ \E r \in DOMAIN definitions[1] :
          /\ definitions[1][r].type = "model"
          /\ \E k \in 1..Len(definitions[1][r].fields) :
                /\ definitions[1][r].fields[k].schema.type = "default"
                /\ definitions[1][r].fields[k].schema.schema.type = "function-after"

RECURSIVE Functions(_)
\* the functions of the validator nodes that wrap a schema, outermost first
Functions(s) ==
    IF s.type \in ValidatorNodes THEN << s.function >> \o Functions(s.schema)
    ELSE IF s.type = "default" THEN Functions(s.schema)
    ELSE <<>>

\* the functions the declaration of a field asks for, outermost first: the V1
\* validator of the field, then the item and @field_validator functions, last first
Applicable(cls, field) ==
    LET items == field.metadata \o validators_from_decorators(cls, field)
        vs == SelectSeq(items, LAMBDA a : a.kind = "validator")
    IN (IF field.v1 = "field" THEN << <<cls.n, field.name>> >> ELSE <<>>)
       \o [k \in 1..Len(vs) |-> vs[Len(vs) + 1 - k].func]

\* C15: in every finished model schema each field's schema is wrapped by exactly the
\* validators that apply to that field, each once, and by no validator of another
\* field, whether the schema was built for the field or taken from the field cache.
C15_ExactValidators ==
    \A i \in Insts :
        LET ref == get_type_ref(ModelT("A")) IN
        ref \in DOMAIN definitions[i] =>
            \A k \in 1..Len(definitions[i][ref].fields) :
                Functions(definitions[i][ref].fields[k].schema)
                    = Applicable(ModelT("A"), decl["A"].fields[k])

\* the cache key of the k-th field of model n, compiled under the model's own config
FieldKey(n, k) ==
    << field_info_cache_key(eval_type(decl[n].fields[k].annotation),
                            decl[n].fields[k].metadata),
       decl[n].config.use_enum_values >>

\* the finished models of the running program: instance, class name
Finished ==
    { p \in Insts \X ({"A", "B"} \cap DOMAIN decl) :
        get_type_ref(ModelT(p[2])) \in DOMAIN definitions[p[1]] }
FieldsOf(p) == definitions[p[1]][get_type_ref(ModelT(p[2]))].fields

\* C16: within one program two fields of finished models have the same schema instance
\* from the field cache exactly if their keys (evaluated type, metadata, enum-value
\* policy) are the same.
C16_OneInstancePerKey ==
    \A p, q \in Finished :
        \A k \in 1..Len(FieldsOf(p)), l \in 1..Len(FieldsOf(q)) :
            (FieldKey(p[2], k) = FieldKey(q[2], l))
                <=> (FieldsOf(p)[k].node = FieldsOf(q)[l].node)

\* the ref of the stored node a schema stands for: its own ref, or the one it refers to
StoredRef(i, s) ==
    IF get_ref(s) # NoRef THEN get_ref(s)
    ELSE IF s.type = "definition-ref" /\ s.schema_ref \in DOMAIN definitions[i]
    THEN s.schema_ref
    ELSE NoRef

\* C17: the step of _apply_annotations that applies the items leaves every node of
\* defs.definitions as it was; a known item applied to a ref-bearing schema, or to a
\* reference to a stored node, gives the stored node of the derived ref when there is
\* one, and otherwise a copy of the node that carries the derived ref and the item.
C17_SpecializedCopy ==
    [][\A i \in Insts :
         At(i, "_apply_annotations", "inner") =>
            /\ definitions'[i] = definitions[i]
            /\ (Top(i).annots = << Gt >> /\ StoredRef(i, ret[i]) # NoRef) =>
                  LET ref == StoredRef(i, ret[i])
                      derived == new_ref(ref, Gt) IN
                  IF derived \in DOMAIN definitions[i]
                  THEN ret'[i] = definitions[i][derived]
                  ELSE /\ get_ref(ret'[i]) = derived
                       /\ ret'[i].Gt
                       /\ "Gt" \notin DOMAIN definitions'[i][ref]
                       /\ get_ref(definitions'[i][ref]) = ref
       ]_vars

C17_Witness ==
    LET ref == get_type_ref(ModelT("M"))
        derived == new_ref(ref, Gt) IN
    /\ {ref, derived} \subseteq DOMAIN definitions[1]
    /\ At(1, "_common_field_schema", "first")
    /\ Top(1).annots = << Gt >>
    /\ ret[1] = definitions[1][derived]
    /\ get_ref(definitions[1][ref]) = ref
    /\ "Gt" \notin DOMAIN definitions[1][ref]

\* the schema under the with-default node, if there is one
Undefault(s) == IF s.type = "default" THEN s.schema ELSE s

\* the validator node of function f
WrappedBy(s, f) == s.type = "function-after" /\ s.function = f

\* C20: when _common_field_schema finishes a field with an each-item validator, a
\* list-typed field has the list node as its schema and the validator around the
\* list's items_schema, an optional list has the same inside its nullable node, a
\* dict-typed field has the validator around its values_schema, and a field of any
\* other type raises.
C20_EachItemPushDown ==
    [][\A i \in Insts :
         (At(i, "_common_field_schema", "post") /\ Top(i).field.v1 = "each_item") =>
            LET tp == Top(i).source
                f == <<Top(i).obj.n, Top(i).field.name>>
                out == Undefault(ret'[i].schema) IN
            CASE tp.k = "list" /\ ~tp.opt ->
                    /\ exc'[i] = "none"
                    /\ out.type = "list"
                    /\ WrappedBy(out.items_schema, f)
              [] tp.k = "list" /\ tp.opt ->
                    /\ exc'[i] = "none"
                    /\ out.type = "nullable"
                    /\ out.schema.type = "list"
                    /\ WrappedBy(out.schema.items_schema, f)
              [] tp.k = "dict" ->
                    /\ exc'[i] = "none"
                    /\ out.type = "dict"
                    /\ WrappedBy(out.values_schema, f)
              [] tp.k = "tuple" -> TRUE
              [] OTHER -> exc'[i] = "TypeError"
       ]_vars

RECURSIVE Pending(_)
\* the schema holds a union node whose discriminator is still to be applied
Pending(s) ==
    IF s.type = "union" THEN "metadata" \in DOMAIN s
    ELSE IF s.type \in ValidatorNodes \cup {"default", "nullable"} THEN Pending(s.schema)
    ELSE FALSE

\* the fields of the model A in a definition table or a cleaned graph
FieldsOfA(defs) == defs[get_type_ref(ModelT("A"))].fields
CleanedA(cleaned) == CHOOSE d \in cleaned.definitions : d.ref = get_type_ref(ModelT("A"))
HasA(cleaned) == \E d \in cleaned.definitions : d.ref = get_type_ref(ModelT("A"))

\* C18: when the immediate application of a field's discriminator stops at a member
\* whose definition is not at hand, _apply_annotations goes on without an exception,
\* with the discriminator recorded on the union node; no generate_schema ends with
\* MissingDefinitionForUnionRef; and in every graph clean_schema returns no union node
\* has a discriminator still to apply and every field declared with a discriminator
\* is a tagged union on that discriminator.
C18_Deferral ==
    /\ [][\A i \in Insts :
            (/\ At(i, "_apply_annotations", "inner")
             /\ Top(i).discriminator # ""
             /\ apply_discriminator(ret[i], Top(i).discriminator,
                                    apply_discriminator_definitions(definitions[i]))
                   = MissingDefinitionForUnionRef)
            => /\ exc'[i] = "none"
               /\ ret'[i] = set_discriminator_in_metadata(ret[i], Top(i).discriminator)
         ]_vars
    /\ [](\A i \in Insts : \A k \in 1..Len(log[i]) :
            LET e == log[i][k] IN
            /\ e.status # "MissingDefinitionForUnionRef"
            /\ e.cleaned.type = "definitions" =>
                 /\ \A d \in e.cleaned.definitions :
                       \A j \in 1..Len(d.fields) : ~Pending(d.fields[j].schema)
                 /\ HasA(e.cleaned) =>
                       \A j \in 1..Len(decl["A"].fields) :
                          decl["A"].fields[j].discriminator # "" =>
                             CleanedA(e.cleaned).fields[j].schema
                                = tagged_union_schema(
                                      << definition_reference_schema(get_type_ref(ModelT("X"))),
                                         definition_reference_schema(get_type_ref(ModelT("Y"))) >>,
                                      decl["A"].fields[j].discriminator))

C18_Witness ==
    \E k \in 1..Len(log[1]) :
        /\ log[1][k].obj = ModelT("X")
        /\ log[1][k].status = "none"
        /\ get_type_ref(ModelT("A")) \in DOMAIN log[1][k].after
        /\ decl["A"].fields # <<>>
        /\ Pending(FieldsOfA(log[1][k].after)[1].schema)
        /\ log[1][k].cleaned.type = "definitions"
        /\ CleanedA(log[1][k].cleaned).fields[1].schema.type = "tagged-union"

\* a member of the union lacks the field the discriminator names
LacksTag(discriminator) ==
    \E n \in {"X", "Y"} :
        \A k \in 1..Len(decl[n].fields) : decl[n].fields[k].name # discriminator

----------------------------------------------------------------------------
\* Named tuples, type aliases, typing.Self and classes of no known kind: a model A
\* with at most MaxKindFields fields, a dataclass Box with a field of the class C (a
\* class pydantic knows nothing about), a named tuple NT and a type alias AL. The
\* class Missing exists, but the namespace lacks its name until define_name.

MaxKindFields == 1

KindFieldTypes ==
    {IntT, SelfT, NamedTupleT("NT"), TypeAliasT("AL"), ClassT("C"), ForwardT("Missing"),
     BoxT("int"), Optional(SelfT)}
NamedTupleFieldTypes == {IntT, SelfT, ForwardT("Missing")}
AliasValues == {IntT, ModelT("A")}
KindRequests ==
    {ModelT("A"), SelfT, NamedTupleT("NT"), TypeAliasT("AL"), ClassT("C"),
     HookedT("H", "call"), HookedT("H", "generate_schema")}

\* one step of the builders of a named tuple and of a type alias
StepKinds(i) ==
    \/ namedtuple_schema_enter(i) \/ namedtuple_schema_field(i)
    \/ namedtuple_schema_field_return(i) \/ namedtuple_schema_finish(i)
    \/ type_alias_type_schema_enter(i) \/ type_alias_type_schema_return(i)

\* the module that declares the records executes the class statement of Missing: the
\* namespace the instance resolves names in (lines 362-364) has the name from now on
define_name ==
    /\ \A i \in Insts : Idle(i)
    /\ "Missing" \notin ns
    /\ ns' = ns \cup {"Missing"}
    /\ UNCHANGED <<decl, config, process, SCHEMA_CACHE, seen, definitions, model_type_stack,
                   field_name_stack, stack, ret, exc, req, log, expanded>>

InitKinds ==
    /\ \E fa \in FieldListsUpTo(MaxKindFields, KindFieldTypes, {FALSE}),
          tn \in NamedTupleFieldTypes, ta \in AliasValues, a \in BOOLEAN, d \in BOOLEAN :
          decl = [n \in {"A", "Box", "NT", "AL", "Missing"} |->
                    CASE n = "A" -> DeclWith(fa, ArbitraryTypes(Config(FALSE), a))
                      [] n = "Box" -> DeclWith(<< FieldInfo("f1", ClassT("C"), FALSE) >>,
                                               ArbitraryTypes(Config(FALSE), d))
                      [] n = "NT" -> DeclWith(<< FieldInfo("f1", tn, FALSE) >>, NoConfig)
                      [] n = "AL" -> DeclWith(<< FieldInfo("__value__", ta, FALSE) >>, NoConfig)
                      [] OTHER -> Decl(<<>>)]
    /\ ns = {"A"}
    /\ Fresh

NextKinds ==
    \/ Step(1)
    \/ StepKinds(1)
    \/ \E tp \in KindRequests : StartCompile(1, tp)
    \/ Complete(1)
    \/ define_name

KindsSpec == InitKinds /\ [][NextKinds]_vars

\* the records whose builder has pushed the class on model_type_stack and has not
\* left yet, outermost first
RecordsInProgress(stk) ==
    SelectSeq(stk, LAMBDA f : f.pushed /\ f.fn \in {"_generate_schema_inner", "_dataclass_schema",
                                                     "_typed_dict_schema", "_namedtuple_schema"})

\* C23: typing.Self resolves to the innermost record whose compilation is in progress,
\* and raises the invalid-self-type error exactly when no record is being compiled,
\* also in a compilation that follows a failed one on the same instance.
C23_SelfResolvesToInnermost ==
    [][\A i \in Insts :
         (At(i, "_generate_schema_from_property", "start") /\ Top(i).obj = SelfT) =>
            LET rs == RecordsInProgress(stack[i]) IN
            IF rs = <<>>
            THEN exc'[i] = InvalidSelfReference
            ELSE /\ exc'[i] = "none"
                 /\ ret'[i] = definition_reference_schema(get_type_ref(rs[Len(rs)].obj))
      ]_vars

\* the last request of the instance was the compilation of a record on an instance as
\* __init__ left it, it failed on the name Missing, and the namespace now has the name
FailedOnMissing(i) ==
    /\ log[i] # <<>>
    /\ LET last == log[i][Len(log[i])] IN
          /\ last.status = "PydanticUndefinedAnnotation"
          /\ last.fresh
          /\ last.obj.k \in {"model", "namedtuple"}
    /\ "Missing" \in ns

\* C24: when the compilation of a record has failed on an undefined forward reference
\* and the same compilation is begun again on the same instance with the name defined,
\* the instance has no definition and no in-progress marker for the record and nothing
\* on its two context stacks, and the retry succeeds.
C24_RetryAfterUndefined ==
    [][\A i \in Insts :
         LET last == log[i][Len(log[i])] IN
         /\ (FailedOnMissing(i) /\ Idle(i) /\ req'[i] # NoReq /\ req'[i].obj = last.obj) =>
               /\ get_type_ref(last.obj) \notin DOMAIN definitions[i]
               /\ get_type_ref(last.obj) \notin seen[i]
               /\ model_type_stack[i] = <<>>
               /\ field_name_stack[i] = <<>>
         /\ (FailedOnMissing(i) /\ req[i] # NoReq /\ req[i].obj = last.obj /\ log'[i] # log[i]) =>
               log'[i][Len(log'[i])].status = "none"
      ]_vars

\* the builders that take a ref from get_schema_or_ref and build the node for it
RefBuilders ==
    {"_model_schema", "_dataclass_schema", "_typed_dict_schema", "_namedtuple_schema",
     "_type_alias_type_schema"}

\* C25: a builder that took a ref from get_schema_or_ref and built the node has, when
\* it returns, stored the node in defs.definitions under the ref, and it returns the
\* definition-reference of the ref, not the node.
C25_StoredThenReferenced ==
    [][\A i \in Insts :
         (/\ Running(i) /\ exc[i] = "none"
          /\ Top(i).fn \in RefBuilders /\ Top(i).owned
          /\ Len(stack'[i]) < Len(stack[i]))
         => /\ Top(i).ref \in DOMAIN definitions'[i]
            /\ ret'[i] = definition_reference_schema(Top(i).ref)
      ]_vars

\* the configuration of the innermost model or dataclass whose fields are being
\* expanded, and the configuration of the instance when there is none
ActiveConfig(i) ==
    LET js == {j \in 1..Len(stack[i]) :
                 /\ stack[i][j].fn \in {"_model_schema", "_dataclass_schema"}
                 /\ stack[i][j].pc # "start"}
    IN IF js = {} THEN config[i]
       ELSE decl[stack[i][CHOOSE j \in js : \A k \in js : k <= j].obj.n].config

\* C27: a class of no known kind gets an is-instance schema when the innermost
\* configuration allows arbitrary types and raises PydanticSchemaGenerationError when
\* it does not; an exception raised in the build is never replaced by a schema: it
\* reaches the caller of generate_schema.
C27_ArbitraryTypes ==
    [][\A i \in Insts :
         /\ (At(i, "_generate_schema_inner", "start") /\ Top(i).obj = ClassT("C")) =>
               IF ActiveConfig(i).arbitrary_types_allowed
               THEN exc'[i] = "none" /\ ret'[i] = is_instance_schema("C")
               ELSE exc'[i] = "PydanticSchemaGenerationError"
         /\ exc[i] # "none" =>
               \/ exc'[i] = exc[i] /\ log'[i] = log[i]
               \/ /\ Len(log'[i]) = Len(log[i]) + 1
                  /\ log'[i][Len(log'[i])].status = exc[i]
                  /\ log'[i][Len(log'[i])].schema = None
      ]_vars

\* the class C has got its is-instance schema as the field of the dataclass Box, which
\* allows arbitrary types, inside the model A, which does not
C27_Witness ==
    /\ Running(1) /\ exc[1] = "none"
    /\ Top(1).fn = "_generate_schema_inner" /\ Top(1).obj = BoxT("int")
    /\ ret[1] = definition_reference_schema(get_type_ref(BoxT("int")))
    /\ ~decl["A"].config.arbitrary_types_allowed
    /\ \E j \in 1..Len(stack[1]) : stack[1][j].fn = "_model_schema"
    /\ get_type_ref(BoxT("int")) \in DOMAIN definitions[1]
    /\ definitions[1][get_type_ref(BoxT("int"))].fields[1].schema = is_instance_schema("C")

\* C26: of the serializers that apply to a field, and of those that apply to a
\* record, the one declared last is what the serialization slot of the schema holds,
\* whatever serialization the schema had before.
C26_LastSerializerWins ==
    [][\A i \in Insts :
         /\ (/\ At(i, "_common_field_schema", "post")
             /\ Top(i).field.serializer # <<>>
             /\ exc'[i] = "none")
            => ret'[i].schema.serialization =
                  Top(i).field.serializer[Len(Top(i).field.serializer)]
         /\ (/\ Running(i) /\ exc[i] = "none"
             /\ Top(i).fn \in {"_model_schema", "_dataclass_schema", "_typed_dict_schema"}
             /\ Top(i).owned
             /\ Len(stack'[i]) < Len(stack[i])
             /\ decl[Top(i).obj.n].model_serializers # <<>>)
            => definitions'[i][Top(i).ref].serialization =
                  decl[Top(i).obj.n].model_serializers[Len(decl[Top(i).obj.n].model_serializers)]
      ]_vars

\* the model A is stored with a field that has two field serializers and a
\* PlainSerializer in its metadata, and the model M with its two model serializers
C26_Witness ==
    /\ get_type_ref(ModelT("A")) \in DOMAIN definitions[1]
    /\ get_type_ref(ModelT("M")) \in DOMAIN definitions[1]
    /\ LET a == definitions[1][get_type_ref(ModelT("A"))] IN
         \E k \in 1..Len(a.fields) :
            /\ decl["A"].fields[k].metadata = <<Ps>>
            /\ decl["A"].fields[k].serializer = <<"s1", "s2">>
            /\ a.fields[k].schema.serialization = "s2"
    /\ definitions[1][get_type_ref(ModelT("M"))].serialization = "m2"

\* the items of a metadata list that supply a capability
Capable(annotations) ==
    SelectSeq(annotations, LAMBDA a : a.kind \notin {"unknown", "none"})

\* C30: folding a metadata list gives the schema, and leaves the definitions, that
\* folding the list without its None items and its items of no known capability
\* gives; a list of such items only gives the schema it was applied to.
C30_UnknownIsNoOp ==
    [][\A i \in Insts :
         (At(i, "_apply_annotations", "inner") /\ Top(i).discriminator = "") =>
            /\ exc'[i] = "none"
            /\ ret'[i] = _apply_annotations(ret[i], Capable(Top(i).annots), 1, definitions[i])
            /\ definitions'[i] =
                 _apply_annotations_definitions(ret[i], Capable(Top(i).annots), 1,
                                                definitions[i])
            /\ Capable(Top(i).annots) = <<>> =>
                 ret'[i] = ret[i] /\ definitions'[i] = definitions[i]
      ]_vars

\* the metadata of a field of the stored model M, and of an int field, was an item of
\* no known capability, and a list with a None item was folded
C30_Witness ==
    /\ get_type_ref(ModelT("A")) \in DOMAIN definitions[1]
    /\ LET a == definitions[1][get_type_ref(ModelT("A"))] IN
         /\ Len(a.fields) = 2
         /\ decl["A"].fields[1].annotation = ModelT("M")
         /\ decl["A"].fields[1].metadata = <<Ux>>
         /\ a.fields[1].schema = definition_reference_schema(get_type_ref(ModelT("M")))
         /\ decl["A"].fields[2].metadata = <<NoneItem, Gt>>
         /\ a.fields[2].schema = Put(int_schema, "Gt", TRUE)

----------------------------------------------------------------------------
\* Decorators that name fields, and aliases.  One instance compiles the model A, whose
\* fields are drawn from RecordShapes; A has at most one decorator of its own, it may
\* have the computed field f3, and its configuration may have an alias generator.

MaxRecordFields == 2

RecordShapes ==
    { FieldInfo("", IntT, FALSE),
      WithAliases(FieldInfo("", IntT, FALSE), "x", "x", "x", 2),
      WithAliases(FieldInfo("", IntT, FALSE), "", "v", "", 2),
      WithAliases(FieldInfo("", IntT, FALSE), "", "", "s", 2),
      WithAliases(FieldInfo("", IntT, FALSE), "x", "x", "x", 1),
      FieldInfo("", Optional(IntT), TRUE),
      FieldInfo("", BoxT("int"), FALSE) }

RecordDecorators ==
    { <<>>,
      << Decorator(<<"A", "d">>, "after", {"f1"}) >>,
      << Decorator(<<"A", "d">>, "after", {"f3"}) >>,
      << Decorator(<<"A", "d">>, "after", {"*"}) >>,
      << Unchecked(Decorator(<<"A", "d">>, "after", {"f3"})) >> }

AliasGenerators ==
    { NoGenerator, AliasGenerator("g", "", ""), AliasGenerator("g", "gv", "gs"),
      AliasGenerator("", "gv", "") }

InitRecord ==
    /\ \E fa \in ShapedFieldLists(MaxRecordFields, RecordShapes), decs \in RecordDecorators,
          computed \in {{}, {"f3"}}, g \in AliasGenerators :
          decl = [n \in {"A", "Box"} |->
                    IF n = "A"
                    THEN WithComputedFields(
                             DeclFull(fa, WithAliasGenerator(Config(FALSE), g), decs), computed)
                    ELSE Decl(<< FieldInfo("f1", IntT, FALSE) >>)]
    /\ ns = {"A"}
    /\ Fresh

NextRecord ==
    \/ Step(1)
    \/ StartCompile(1, ModelT("A"))
    \/ Complete(1)

RecordSpec == InitRecord /\ [][NextRecord]_vars

\* a decorator of the class is checked and names something that is neither a field
\* nor a computed field of the class
NamesMissingField(cls) ==
    \E j \in 1..Len(decl[cls.n].field_validators) :
       LET dec == decl[cls.n].field_validators[j] IN
       /\ "*" \notin dec.fields
       /\ dec.check_fields
       /\ \E f \in dec.fields :
             /\ \A k \in 1..Len(decl[cls.n].fields) : decl[cls.n].fields[k].name # f
             /\ f \notin decl[cls.n].computed_fields

\* C28: the compilation of a model with a decorator that names a field the model does
\* not have, neither declared nor computed, raises the decorator-missing-field error
\* before a field is expanded, unless the decorator names '*' or was declared with
\* check_fields=False; when the error reaches the caller the model's ref is neither
\* in defs.definitions nor in defs.seen.
C28_DecoratorMissingField ==
    [][\A i \in Insts :
         /\ (/\ At(i, "_model_schema", "start")
             /\ ~get_schema_or_ref_found(i, get_type_ref(Top(i).obj))) =>
               IF NamesMissingField(Top(i).obj)
               THEN /\ exc'[i] = DecoratorMissingField
                    /\ expanded'[i] = expanded[i]
                    /\ Len(stack'[i]) = Len(stack[i])
               ELSE exc'[i] = "none"
         /\ (exc[i] = DecoratorMissingField /\ log'[i] # log[i]) =>
               /\ get_type_ref(ModelT("A")) \notin seen'[i]
               /\ get_type_ref(ModelT("A")) \notin DOMAIN definitions'[i]
               /\ \A k \in 1..Len(expanded[i]) : expanded[i][k] # get_type_ref(ModelT("A"))
      ]_vars

\* a compilation of A, which has the fields f1 and f2 and no computed field, has
\* failed on the decorator that names f3
C28_Witness ==
    /\ log[1] # <<>>
    /\ log[1][1].status = DecoratorMissingField
    /\ log[1][1].obj = ModelT("A")
    /\ Len(decl["A"].fields) = 2
    /\ decl["A"].computed_fields = {}
    /\ decl["A"].field_validators = << Decorator(<<"A", "d">>, "after", {"f3"}) >>
    /\ Idle(1)
    /\ seen[1] = {}
    /\ definitions[1] = <<>>

\* what the generator of the innermost configuration gives for the validation alias
\* and the serialization alias of a field name: its own function for that alias, or
\* else its alias function; "" when it has neither, or when there is no generator
GeneratedValidationAlias(i, name) ==
    LET g == ActiveConfig(i).alias_generator IN
    IF g = NoGenerator THEN ""
    ELSE IF g[1].validation_alias # "" THEN g[1].validation_alias \o "_" \o name
    ELSE IF g[1].alias # "" THEN g[1].alias \o "_" \o name ELSE ""
GeneratedSerializationAlias(i, name) ==
    LET g == ActiveConfig(i).alias_generator IN
    IF g = NoGenerator THEN ""
    ELSE IF g[1].serialization_alias # "" THEN g[1].serialization_alias \o "_" \o name
    ELSE IF g[1].alias # "" THEN g[1].alias \o "_" \o name ELSE ""

\* C29: the validation alias and the serialization alias of a field are the alias
\* declared for it with priority 2 when there is one, otherwise what the alias
\* generator of the configuration gives, otherwise none; without a generator they are
\* the declared ones.  (An alias whose priority is 1 or unset is one the generator
\* replaces.)
C29_AliasPrecedence ==
    [][\A i \in Insts :
         (At(i, "_common_field_schema", "post") /\ exc'[i] = "none") =>
            LET f == Top(i).field
                without == ActiveConfig(i).alias_generator = NoGenerator IN
            /\ ret'[i].validation_alias =
                 IF without \/ (f.alias_priority = 2 /\ f.validation_alias # "")
                 THEN f.validation_alias
                 ELSE GeneratedValidationAlias(i, f.name)
            /\ ret'[i].serialization_alias =
                 IF without \/ (f.alias_priority = 2 /\ f.serialization_alias # "")
                 THEN f.serialization_alias
                 ELSE GeneratedSerializationAlias(i, f.name)
      ]_vars

\* A is stored; its configuration has a generator with a function for each alias; its
\* first field declares the three aliases with priority 2 and keeps them, its second
\* declares a validation alias only and has the generated serialization alias
C29_Witness ==
    /\ get_type_ref(ModelT("A")) \in DOMAIN definitions[1]
    /\ decl["A"].config.alias_generator = AliasGenerator("g", "gv", "gs")
    /\ LET a == definitions[1][get_type_ref(ModelT("A"))] IN
         /\ Len(a.fields) = 2
         /\ decl["A"].fields[1].alias_priority = 2
         /\ a.fields[1].validation_alias = "x"
         /\ a.fields[1].serialization_alias = "x"
         /\ decl["A"].fields[2].alias_priority = 2
         /\ a.fields[2].validation_alias = "v"
         /\ a.fields[2].serialization_alias = "gs_f2"

\* the members of a union type in the order of its declaration, None left out
union_members(tp) ==
    IF tp.k = "union" THEN << ModelT(tp.n), ModelT(tp.arg) >> ELSE << NonOptional(tp) >>

\* what generate_schema gives for a member that is a record class or int
member_schema(tp) ==
    IF tp.k = "prim" THEN int_schema ELSE definition_reference_schema(get_type_ref(tp))

\* the call on top of the stack of instance i is _union_schema and returns in this step
UnionReturns(i) ==
    /\ Running(i) /\ exc[i] = "none" /\ Top(i).fn = "_union_schema"
    /\ exc'[i] = "none"
    /\ Len(stack'[i]) = Len(stack[i]) - 1

\* C31: _union_schema compiles the members of a union in the order of the declaration,
\* and what it returns is decided when all members are compiled: the schema of the
\* member when there is one member besides None, with no union node; a union node
\* with the members' schemas in the order of the declaration when there are several;
\* and either of them inside a nullable node exactly when None is a member.
C31_UnionOrderAndCollapse ==
    [][\A i \in Insts :
         /\ (Running(i) /\ exc[i] = "none" /\ Top(i).fn = "_union_schema"
              /\ Len(stack'[i]) = Len(stack[i]) + 1) =>
                LET k == Len(stack'[i][Len(stack[i])].acc) + 1 IN
                /\ k <= Len(union_members(Top(i).obj))
                /\ stack'[i][Len(stack'[i])].fn = "generate_schema"
                /\ stack'[i][Len(stack'[i])].obj = union_members(Top(i).obj)[k]
         /\ UnionReturns(i) =>
                LET members == union_members(Top(i).obj)
                    choices == [k \in 1..Len(members) |-> member_schema(members[k])]
                    s == IF Len(members) = 1 THEN choices[1] ELSE union_schema(choices)
                IN /\ (Top(i).obj.opt) => ret'[i] = nullable_schema(s)
                   /\ (~Top(i).obj.opt) => ret'[i] = s
                   /\ Len(members) = 1 => s.type # "union"]_vars

\* a nullable union of two members has been returned
C31_Witness ==
    /\ ~Running(1) /\ exc[1] = "none" /\ req[1] # NoReq
    /\ \E ref \in DOMAIN definitions[1] :
          /\ definitions[1][ref].type = "model"
          /\ \E j \in 1..Len(definitions[1][ref].fields) :
                LET f == definitions[1][ref].fields[j].schema IN
                /\ f.type = "nullable"
                /\ f.schema.type = "union"
                /\ f.schema.choices =
                      << definition_reference_schema(get_type_ref(ModelT("X"))),
                         definition_reference_schema(get_type_ref(ModelT("Y"))) >>

RECURSIVE Unnullable(_)
\* the schema inside the nullable nodes of a schema
Unnullable(s) == IF s.type = "nullable" THEN Unnullable(s.schema) ELSE s

\* C21: when _common_field_schema hands apply_each_item_validators a non-empty list of
\* each-item validators, the call raises TypeError unless the schema, inside its
\* nullable nodes, is a list, a dict or a tuple with a variadic item; a tuple without
\* a variadic item raises too.
C21_NeverDropped ==
    [][\A i \in Insts :
         (At(i, "_common_field_schema", "post") /\ Top(i).field.v1 = "each_item") =>
            LET target == Unnullable(ret[i]) IN
            IF \/ target.type \in {"list", "dict"}
               \/ target.type = "tuple" /\ target.variadic_item_index # 0
            THEN exc'[i] = "none"
            ELSE exc'[i] = "TypeError"
       ]_vars

\* the type has an override hook: a model class has BaseModel.__get_pydantic_core_schema__
\* and a hooked class has its own
HasHook(tp) == tp.k \in {"model", "hooked"} /\ ~tp.opt

\* C22: the override hook of a type is consulted before the Definition Table is: a call
\* of _generate_schema_from_property for a type with a hook is not answered from
\* defs.seen or defs.definitions in its first step, before the hook was looked up.
C22_HookBeforeTable ==
    [][\A i \in Insts :
         (At(i, "_generate_schema_from_property", "start") /\ HasHook(Top(i).obj))
            => Len(stack'[i]) >= Len(stack[i])
       ]_vars

\* the ref of the type that the running _generate_schema_from_property call looks up
\* (lines 752-754)
LookedUp(i) ==
    get_type_ref(IF Top(i).obj.k = "self" /\ ~Top(i).obj.opt
                 THEN _resolve_self_type(model_type_stack[i])
                 ELSE Top(i).obj)

\* the type of the running call has been visited: its ref is in defs.seen or in
\* defs.definitions
Visited(i) == LookedUp(i) \in seen[i] \/ LookedUp(i) \in DOMAIN definitions[i]

\* C32: when _generate_schema_from_property is called for a type whose ref is in
\* defs.seen or in defs.definitions, the call returns the reference node to that ref
\* in its first step, so the override hook of the type is not called; a call goes on
\* to the hook only when the ref was in neither.
C32_VisitedSkipsHook ==
    [][\A i \in Insts :
         At(i, "_generate_schema_from_property", "start") =>
            /\ Visited(i) =>
                  /\ Len(stack'[i]) = Len(stack[i]) - 1
                  /\ ret'[i] = definition_reference_schema(LookedUp(i))
                  /\ exc'[i] = "none"
                  /\ seen'[i] = seen[i]
                  /\ definitions'[i] = definitions[i]
            /\ (Len(stack'[i]) = Len(stack[i])
                  /\ stack'[i][Len(stack[i])].pc \in {"scope", "hook", "hook_ret"})
                  => ~Visited(i)
       ]_vars

\* a model class that is being expanded, and one that is defined, has been asked for
\* again and answered by a reference
C32_Witness ==
    \E i \in Insts :
       /\ At(i, "generate_schema", "from_property")
       /\ HasHook(Top(i).obj)
       /\ ret[i] = definition_reference_schema(get_type_ref(Top(i).obj))
       /\ get_type_ref(Top(i).obj) \in seen[i]
       /\ \E ref \in DOMAIN definitions[i] : ref # get_type_ref(Top(i).obj)

\* the override hook of the type with this ref is running: a call of
\* _generate_schema_from_property for it is at line 764 and has not got the result
HookRunning(i, ref) ==
    \E j \in 1..(Len(stack[i]) - 1) :
       /\ stack[i][j].fn = "_generate_schema_from_property"
       /\ stack[i][j].pc = "hook_ret"
       /\ HasHook(stack[i][j].obj)
       /\ get_type_ref(stack[i][j].obj) = ref

\* C33: while the override hook of a type is running, a call of
\* _generate_schema_from_property for the same type finds the type's ref in defs.seen
\* and returns the reference node in its first step, so the hook is not called a
\* second time inside itself.
C33_HookNotReentered ==
    [][\A i \in Insts :
         (At(i, "_generate_schema_from_property", "start") /\ HookRunning(i, LookedUp(i)))
            => /\ LookedUp(i) \in seen[i]
               /\ Len(stack'[i]) = Len(stack[i]) - 1
               /\ ret'[i] = definition_reference_schema(LookedUp(i))
       ]_vars

\* C34: a schema stored in SCHEMA_CACHE is never modified after it is stored: no step
\* of any compilation, the post-processing of a field that obtained the schema from
\* the cache or stored it there included, changes the schema that the cache holds
\* under a key, which is what a later hit for the key returns.
C34_CachedSchemaUnmodified ==
    [][\A key \in DOMAIN SCHEMA_CACHE :
         /\ key \in DOMAIN SCHEMA_CACHE'
         /\ SCHEMA_CACHE'[key].schema = SCHEMA_CACHE[key].schema
       ]_vars

\* the running _common_field_schema call of instance i leaves the with block of line
\* 1263 in this step, with the schema of the field in hand
FieldSchemaObtained(i) ==
    /\ Running(i) /\ exc[i] = "none" /\ Top(i).fn = "_common_field_schema"
    /\ Top(i).pc # "post"
    /\ Len(stack'[i]) = Len(stack[i])
    /\ stack'[i][Len(stack[i])].pc = "post"

\* the schema in hand is the one SCHEMA_CACHE had under the key of the field
FieldCacheHit(i) ==
    /\ Top(i).pc = "first"
    /\ cache_key(i, Top(i).source, Top(i).field.metadata) \in DOMAIN SCHEMA_CACHE

\* C35: a call of _common_field_schema has run _apply_annotations exactly once when it
\* has built the schema of the field, and not at all when it has taken the schema from
\* SCHEMA_CACHE.
C35_PipelineOncePerField ==
    [][\A i \in Insts :
         FieldSchemaObtained(i) =>
            IF FieldCacheHit(i) THEN Top(i).runs = 0 ELSE Top(i).runs = 1
       ]_vars

----------------------------------------------------------------------------
\* Model validators.  A model A, a typed dict TD and the dataclass Box carry the same
\* list of at most MaxModelValidators @model_validators, of any modes; A has at most
\* MaxValidatedFields fields.

MaxModelValidators == 3
MaxValidatedFields == 1

ValidatorModes == {"before", "after", "wrap"}
ValidatorFunctions == <<"m1", "m2", "m3", "m4">>

ModelValidatorLists ==
    UNION { { [j \in 1..n |-> ModelValidator(modes[j], ValidatorFunctions[j])] :
                modes \in [1..n -> ValidatorModes] } : n \in 0..MaxModelValidators }

ValidatedFieldTypes ==
    {IntT, Optional(IntT), BoxT("int"), TypedDictT("TD"), ForwardT("Missing")}

InitValidators ==
    /\ \E fa \in FieldListsUpTo(MaxValidatedFields, ValidatedFieldTypes, {FALSE}),
          validators \in ModelValidatorLists :
          decl = [n \in {"A", "Box", "TD", "Missing"} |->
                    CASE n = "A" -> WithModelValidators(Decl(fa), validators)
                      [] n = "Box" -> WithModelValidators(
                                         Decl(<< FieldInfo("f1", TypeVarT, FALSE) >>), validators)
                      [] n = "TD" -> WithModelValidators(
                                        Decl(<< FieldInfo("f1", IntT, FALSE) >>), validators)
                      [] OTHER -> Decl(<<>>)]
    /\ ns = {"A", "TD"}
    /\ Fresh

NextValidators ==
    \/ Step(1)
    \/ StepTypedDict(1)
    \/ \E tp \in {ModelT("A"), TypedDictT("TD")} : StartCompile(1, tp)
    \/ Complete(1)

ValidatorsSpec == InitValidators /\ [][NextValidators]_vars

IsValidatorNode(s) == s.type \in {"function-before", "function-after", "function-wrap"}

RECURSIVE ValidatorChain(_)
\* the validator nodes around a schema, outermost first
ValidatorChain(s) ==
    IF IsValidatorNode(s)
    THEN << ModelValidator(CASE s.type = "function-before" -> "before"
                             [] s.type = "function-after" -> "after"
                             [] OTHER -> "wrap",
                           s.function) >> \o ValidatorChain(s.schema)
    ELSE <<>>

RECURSIVE ValidatedCore(_)
\* the schema inside the validator nodes
ValidatedCore(s) == IF IsValidatorNode(s) THEN ValidatedCore(s.schema) ELSE s

\* the inner schema of a model or dataclass node
InnerSchema(node) ==
    IF "schema" \in DOMAIN node THEN node.schema ELSE model_fields_schema(node.fields)

RECURSIVE NoRefInside(_)
\* neither the schema nor a node it wraps has a ref
NoRefInside(s) ==
    /\ "ref" \notin DOMAIN s
    /\ "schema" \in DOMAIN s => NoRefInside(s.schema)

\* the validators of a list that satisfy a test on the mode, last first
LaterOutermost(validators, Test(_)) ==
    LET chosen == SelectSeq(validators, LAMBDA v : Test(v.mode))
    IN [j \in 1..Len(chosen) |-> chosen[Len(chosen) + 1 - j]]

IsBefore(mode) == mode = "before"
IsNotBefore(mode) == mode # "before"
IsAnyMode(mode) == TRUE

\* C36: the schema stored for a record has every model validator of the class around
\* it exactly once: for a model and a dataclass the 'before' validators are around the
\* inner schema and the others around the record node, for a typed dict all are
\* around the node; within each pass the validators are in declaration order with the
\* later ones outermost; the ref of the record is on the outermost node and on no
\* node inside it.
C36_ModelValidatorsOnce ==
    \A i \in Insts : \A ref \in DOMAIN definitions[i] :
       LET stored == definitions[i][ref]
           node == ValidatedCore(stored)
           validators == decl[ref[2]].model_validators IN
       /\ get_ref(stored) = ref
       /\ "schema" \in DOMAIN stored => NoRefInside(stored.schema)
       /\ IF node.type = "typed-dict"
          THEN ValidatorChain(stored) = LaterOutermost(validators, IsAnyMode)
          ELSE /\ node.type \in {"model", "dataclass"}
               /\ ValidatorChain(stored) = LaterOutermost(validators, IsNotBefore)
               /\ ValidatorChain(InnerSchema(node)) = LaterOutermost(validators, IsBefore)
               /\ ValidatedCore(InnerSchema(node)).type \in {"model-fields", "dataclass-args"}

\* a model with a 'before', an 'after' and another 'before' validator is stored, and so
\* is a typed dict with the same three
C36_Witness ==
    /\ Len(decl["A"].model_validators) = 3
    /\ decl["A"].model_validators[1].mode = "before"
    /\ decl["A"].model_validators[2].mode = "after"
    /\ decl["A"].model_validators[3].mode = "before"
    /\ {get_type_ref(ModelT("A")), get_type_ref(TypedDictT("TD"))} \subseteq DOMAIN definitions[1]
    /\ definitions[1][get_type_ref(ModelT("A"))].type = "function-after"
    /\ definitions[1][get_type_ref(TypedDictT("TD"))].type = "function-before"
    /\ ~Running(1)

----------------------------------------------------------------------------
\* json_encoders.  The instance and the model A are configured with a table of
\* encoders each; A allows arbitrary types and has at most MaxEncodedFields fields; the
\* class C has the base class Base.

MaxEncodedFields == 1

EncoderTables ==
    { NoEncoders,
      "int" :> "e_int",
      "C" :> "e_c" @@ "Base" :> "e_base",
      "Base" :> "e_base",
      "object" :> "e_object",
      "Base" :> "e_base" @@ "object" :> "e_object",
      "GenericAlias" :> "e_alias" }

EncodedShapes ==
    { FieldInfo("", IntT, FALSE),
      FieldInfoWith("", IntT, FALSE, <<Ps>>, FALSE, "", <<>>),
      FieldInfoWith("", IntT, FALSE, <<Va>>, FALSE, "", <<>>),
      FieldInfo("", ClassT("C"), FALSE),
      FieldInfo("", Optional(IntT), FALSE),
      FieldInfo("", BoxT("int"), FALSE),
      FieldInfo("", ForwardT("Missing"), FALSE) }

InitEncoders ==
    /\ \E fa \in ShapedFieldLists(MaxEncodedFields, EncodedShapes),
          ta \in EncoderTables, ti \in EncoderTables :
          /\ decl = [n \in {"A", "Box", "Missing"} |->
                       CASE n = "A" -> DeclWith(fa, WithJsonEncoders(
                                                      ArbitraryTypes(Config(FALSE), TRUE), ta))
                         [] n = "Box" -> Decl(<< FieldInfo("f1", TypeVarT, FALSE) >>)
                         [] OTHER -> Decl(<<>>)]
          /\ config = [i \in Insts |->
                         WithJsonEncoders(ArbitraryTypes(Config(FALSE), TRUE), ti)]
    /\ ns = {"A"}
    /\ Started
    /\ process = 1
    /\ log = [i \in Insts |-> <<>>]

NextEncoders ==
    \/ Step(1)
    \/ \E tp \in {ModelT("A"), ClassT("C"), IntT} : StartCompile(1, tp)
    \/ Complete(1)

EncodersSpec == InitEncoders /\ [][NextEncoders]_vars

\* a call of _add_custom_serialization_from_json_encoders is made in this step: by
\* generate_schema at line 624 or by _apply_annotations at line 2078
EncodersCalled(i) ==
    /\ Running(i) /\ exc[i] = "none" /\ exc'[i] = "none"
    /\ Len(stack'[i]) = Len(stack[i]) - 1
    /\ \/ Top(i).fn = "generate_schema" /\ ~Top(i).inner_handler
       \/ Top(i).fn = "_apply_annotations" /\ Top(i).pc = "inner"

\* the schema handed to the call
EncodersArgument(i) ==
    IF Top(i).fn = "generate_schema" THEN ret[i]
    ELSE _apply_annotations(
             _apply_discriminator_to_union(ret[i], Top(i).discriminator, definitions[i]),
             Top(i).annots, 1, definitions[i])

\* what the call returns when the classes looked up are these, in this order
EncodersResult(json_encoders, bases, schema, result) ==
    LET found == {j \in 1..Len(bases) : bases[j] \in DOMAIN json_encoders} IN
    IF json_encoders = NoEncoders \/ "serialization" \in DOMAIN schema \/ found = {}
    THEN result = schema
    ELSE \E j \in found :
            /\ \A k \in found : j <= k
            /\ result = Put(schema, "serialization", json_encoders[bases[j]])

\* the type, or nothing a table of classes has when the type is not a class
TypeItself(tp) == << IF is_class(tp) THEN tp.n ELSE "" >>

\* C37 as stated: _add_custom_serialization_from_json_encoders returns the schema
\* unchanged when it has a serialization, when there is no table and when no class
\* matches, and otherwise sets the encoder of the first class the table has among the
\* type itself and then the classes of its MRO.
C37_FirstEncoderOfWholeMro ==
    [][\A i \in Insts :
         EncodersCalled(i) =>
            EncodersResult(_config_wrapper(i).json_encoders,
                           TypeItself(Top(i).obj) \o mro_of(Top(i).obj),
                           EncodersArgument(i), ret'[i])
       ]_vars

\* C37: _add_custom_serialization_from_json_encoders returns the schema unchanged
\* when it has a serialization, when there is no table and when no class matches, and
\* otherwise sets the encoder of the first class the table has among the type itself
\* and then the classes of its MRO without the last one, object.
C37_FirstEncoderOfMroButObject ==
    [][\A i \in Insts :
         EncodersCalled(i) =>
            LET mro == mro_of(Top(i).obj) IN
            EncodersResult(_config_wrapper(i).json_encoders,
                           TypeItself(Top(i).obj) \o [j \in 1..(Len(mro) - 1) |-> mro[j]],
                           EncodersArgument(i), ret'[i])
       ]_vars

\* the field of class C, whose table has an encoder for C and one for its base class,
\* has the encoder of C
C37_Witness ==
    /\ ~Running(1) /\ exc[1] = "none"
    /\ get_type_ref(ModelT("A")) \in DOMAIN definitions[1]
    /\ decl["A"].config.json_encoders = ("C" :> "e_c" @@ "Base" :> "e_base")
    /\ LET fields == definitions[1][get_type_ref(ModelT("A"))].fields IN
       /\ Len(fields) = 1
       /\ fields[1].schema.type = "is-instance"
       /\ fields[1].schema.serialization = "e_c"

====
